---- MODULE Spec2Model ----
(***************************************************************************)
(* miniDB: the transaction layer (transaction.py) over the key-value       *)
(* store (kv_store.py), with Table.insert / Table.list_rows (table.py)     *)
(* writing to the same store.                                              *)
(*                                                                         *)
(* Python strings are modelled as sequences of string tokens, so that      *)
(* str.startswith is a prefix test: the key "users:u1" is                  *)
(* <<"users", ":", "u1">>.  Python values are token sequences as well.     *)
(***************************************************************************)
EXTENDS Bags, FiniteSets, Integers, Sequences, TLC

\* ------------------------------------------------------------------ bounds

\* Staged entries (len(changes) + len(deletions)) one Transaction may hold.
MaxStaged == 2
\* Transaction scopes one execution context may open.
MaxScopes == 2
\* Rows Table.insert may store.
MaxRows == 1
\* max_connections of the ConnectionPool under test.
MaxConnections == 2
\* Rows Table.insert may store in the table with a schema and an index.
MaxTableRows == 2

\* ------------------------------------------------------------------ inputs

\* Execution contexts (threads) sharing one TransactionManager.
Contexts == {"t1", "t2"}
\* The one context of Spec.
Single == {"t1"}
\* Keys the scope bodies stage.
Keys == {<<"k1">>, <<"k2">>}
\* The key two concurrent contexts stage (SpecConc).
ConcKeys == {<<"k1">>}
\* A value shelve can pickle, and one it cannot (a lambda).
Storable == <<"v1">>
Unpicklable == <<"lambda">>
Values == {Storable, Unpicklable}
\* The table the bodies insert into, and the row they insert.
TableName == "users"
RowData == "name=Alice"
DbName == "test_db"
\* Exceptions a scope body may raise: a subclass of Exception, and a
\* BaseException that is not an Exception.
ValueError == "ValueError"
KeyboardInterrupt == "KeyboardInterrupt"
BodyExceptions == {ValueError, KeyboardInterrupt}
\* What the body of a scope raises where two threads run.
ConcExceptions == {ValueError}
TransactionError == "TransactionError"
\* No exception raised.
NoExc == ""
\* Python's None, as a return value.
None == <<"None">>
\* Python values a caller puts in a column, as <<type name, str(value)>>:
\* 1, "1", 2.0, None, float("inf"), 200 and the tuple (1, 2).
Int1 == <<"int", "1">>
Str1 == <<"str", "1">>
Float2 == <<"float", "2.0">>
PyNone == <<"NoneType", "None">>
Inf == <<"float", "inf">>
Int200 == <<"int", "200">>
Tuple12 == <<"tuple", "(1, 2)">>
RawValues == {Int1, Str1, Float2, PyNone, Inf, Int200, Tuple12}
\* The column of the table that has an index, and the rows a caller builds:
\* Row(age=v) and Row().
FieldName == "age"
Columns(v) == [f \in {FieldName} |-> v]
NoColumns == [f \in {} |-> PyNone]
RowInputs == {Columns(v) : v \in RawValues} \cup {NoColumns}
\* The values a caller updates the column to: one stored as it is, one the
\* schema converts, one out of range and one no int can be made of.
UpdateValues == {Int1, Float2, Int200, Tuple12}
\* The values a caller looks up.
QueryValues == {Int1, Str1, Float2, PyNone}
\* age=IntegerField(required=True, min_value=0, max_value=150)
MinValue == 0
MaxValue == 150
AgeField == [required |-> TRUE, default |-> PyNone,
             min_value |-> MinValue, max_value |-> MaxValue]
\* Table(name, kv_store) and Table(name, kv_store, Schema(age=...)): the
\* schema is a sequence, empty for None.
NoSchema == <<>>
UserSchema == <<[f \in {FieldName} |-> AgeField]>>
Schemas == {NoSchema, UserSchema}
TypeError == "TypeError"
OverflowError == "OverflowError"
SchemaValidationError == "SchemaValidationError"
\* Python's True and False, as return values.
PyTrue == <<"True">>
PyFalse == <<"False">>
\* The get_connection scopes (generator instances) and close() calls that
\* run against one ConnectionPool, each on a thread of its own.
Holders == {"h1", "h2", "h3"}
\* The names MiniDB.create_table is called with, and the rows put in them.
TableNames == {"users", "idx"}
DbRowInputs == {Columns(Int1), NoColumns}
TableNotFoundError == "TableNotFoundError"
\* What the shelf raises for a key that is gone when it is read or deleted.
KeyError == "KeyError"
\* What the shelf raises for a value it cannot pickle.
PicklingError == "PicklingError"
\* The dicts KVStore.set_many and the lists KVStore.delete_many are called
\* with: nothing, one item that is stored, an item that is stored before
\* one that cannot be pickled; nothing, both keys.
ItemLists ==
    {<<>>, <<<<<<"k2">>, Storable>>>>,
     <<<<<<"k2">>, Storable>>, <<<<"k1">>, Unpicklable>>>>}
KeyLists == {<<>>, <<<<"k2">>, <<"k1">>>>}
\* The three ConnectionError messages of connection.py.
PoolClosedError == "ConnectionError: Connection pool is closed"
MaxReachedError == "ConnectionError: Maximum connections reached"
CreateFailedError == "ConnectionError: Failed to create connection"

\* ------------------------------------------------------------------ kv_store.py

\* shelve pickles the value before it writes it: pickling a lambda raises.
Picklable(value) == value # Unpicklable

\* The sentinel KVStore.get returns for an absent key.
KeyNotFound(key) == <<"Key ">> \o key \o <<" not found in ", DbName>>

KVStoreGet(db, key) == IF key \in DOMAIN db THEN db[key] ELSE KeyNotFound(key)

\* KVStore.set: the write, or the exception re-raised with the store untouched.
KVStoreSet(db, key, value) ==
    IF Picklable(value)
    THEN [db |-> [k \in DOMAIN db \cup {key} |-> IF k = key THEN value ELSE db[k]],
          raised |-> FALSE]
    ELSE [db |-> db, raised |-> TRUE]

\* KVStore.delete: a no-op on an absent key.
KVStoreDelete(db, key) == [k \in DOMAIN db \ {key} |-> db[k]]

KVStoreKeys(db) == DOMAIN db

\* shelve.Shelf.close puts a _ClosedDict in place of the dbm: from then on
\* every access to the shelf raises ValueError, which KVStore logs and
\* re-raises.  The operations below that take `open` are told whether the
\* shelf is open; a value is pickled before the shelf is touched, so a value
\* that cannot be pickled raises its own exception on a closed shelf too.

\* KVStore.set_many: the writes in the order of the dict, up to the first
\* that raises; the sync that follows the loop does nothing on a closed
\* shelf, so an empty dict raises nothing.
RECURSIVE KVStoreSetMany(_, _, _)
KVStoreSetMany(db, open, items) ==
    IF items = <<>> THEN [db |-> db, exc |-> NoExc]
    ELSE LET r == KVStoreSet(db, items[1][1], items[1][2])
         IN  IF r.raised THEN [db |-> db, exc |-> PicklingError]
             ELSE IF ~open THEN [db |-> db, exc |-> ValueError]
             ELSE KVStoreSetMany(r.db, open, Tail(items))

\* KVStore.delete_many: each key the store has is deleted; `key in self.db`
\* raises on a closed shelf.
RECURSIVE KVStoreDeleteMany(_, _, _)
KVStoreDeleteMany(db, open, keys) ==
    IF keys = <<>> THEN [db |-> db, exc |-> NoExc]
    ELSE IF ~open THEN [db |-> db, exc |-> ValueError]
    ELSE KVStoreDeleteMany(KVStoreDelete(db, keys[1]), open, Tail(keys))

\* KVStore.clear: no key is left; a closed shelf raises.
KVStoreClear(db, open) ==
    IF open THEN [db |-> [k \in {} |-> db[k]], exc |-> NoExc]
    ELSE [db |-> db, exc |-> ValueError]

\* A record KVStore hands to its logger about key: logger.debug after a set
\* or a delete that was done, logger.error for one that raised.
LogRecord(what, key) == <<what>> \o key

\* ------------------------------------------------------------------ transaction.py

\* Transaction.__init__
NewTransaction ==
    [changes |-> <<>>, deletions |-> <<>>, committed |-> FALSE, rolled_back |-> FALSE]

\* The `self.committed or self.rolled_back` test of set, delete and commit.
Completed(t) == t.committed \/ t.rolled_back

\* `key in self.changes`, and self.changes[key]; changes is a dict, kept as
\* its items in insertion order.
ChangeIndex(changes, key) == {i \in 1..Len(changes) : changes[i][1] = key}
InChanges(changes, key) == ChangeIndex(changes, key) # {}
ChangeValue(changes, key) == changes[CHOOSE i \in ChangeIndex(changes, key) : TRUE][2]

\* `key in self.deletions`; deletions is a list.
InDeletions(deletions, key) == \E i \in 1..Len(deletions) : deletions[i] = key

\* self.changes[key] = value: in place for a key of the dict, else appended.
DictSet(changes, key, value) ==
    IF InChanges(changes, key)
    THEN [i \in 1..Len(changes) |->
            IF changes[i][1] = key THEN <<key, value>> ELSE changes[i]]
    ELSE Append(changes, <<key, value>>)

\* del self.changes[key]
DictDel(changes, key) == SelectSeq(changes, LAMBDA e : e[1] # key)

\* Transaction.set
TransactionSet(t, key, value) ==
    IF Completed(t)
    THEN [tx |-> t, exc |-> TransactionError]
    ELSE [tx |-> [t EXCEPT !.changes = DictSet(t.changes, key, value)], exc |-> NoExc]

\* Transaction.delete
TransactionDelete(t, key) ==
    IF Completed(t)
    THEN [tx |-> t, exc |-> TransactionError]
    ELSE [tx |-> [t EXCEPT !.changes = IF InChanges(t.changes, key)
                                       THEN DictDel(t.changes, key)
                                       ELSE t.changes,
                           !.deletions = Append(t.deletions, key)],
          exc |-> NoExc]

\* Transaction.get with the two tests in the other order (deletions before
\* changes): the variant C5 must tell from the code.
GetDeletionsFirst(t, db, open, key) ==
    IF InDeletions(t.deletions, key) THEN [ret |-> None, exc |-> NoExc]
    ELSE IF InChanges(t.changes, key)
    THEN [ret |-> ChangeValue(t.changes, key), exc |-> NoExc]
    ELSE IF ~open THEN [ret |-> None, exc |-> ValueError]
    ELSE [ret |-> KVStoreGet(db, key), exc |-> NoExc]

\* Transaction.get: a staged key is answered from the buffers; any other
\* key is the store's to answer, and KVStore.get on a closed shelf raises.
TransactionGet(t, db, open, key) ==
    IF InChanges(t.changes, key)
    THEN [ret |-> ChangeValue(t.changes, key), exc |-> NoExc]
    ELSE IF InDeletions(t.deletions, key) THEN [ret |-> None, exc |-> NoExc]
    ELSE IF ~open THEN [ret |-> None, exc |-> ValueError]
    ELSE [ret |-> KVStoreGet(db, key), exc |-> NoExc]

\* Transaction.rollback without its test of committed: the variant C4 must
\* tell from the code.
RollbackUnguarded(t) ==
    [tx |-> [t EXCEPT !.changes = <<>>, !.deletions = <<>>, !.rolled_back = TRUE],
     exc |-> NoExc]

\* Transaction.rollback
TransactionRollback(t) ==
    IF t.committed
    THEN [tx |-> t, exc |-> TransactionError]
    ELSE [tx |-> [t EXCEPT !.changes = <<>>, !.deletions = <<>>, !.rolled_back = TRUE],
          exc |-> NoExc]

\* The first loop of commit: kv_store.set for each item of changes, in dict
\* order, up to the first that raises (a value that cannot be pickled, or
\* any value on a closed shelf); log is what KVStore.set logged on the way.
RECURSIVE ApplyChanges(_, _, _)
ApplyChanges(db, open, changes) ==
    IF changes = <<>> THEN [db |-> db, raised |-> FALSE, log |-> <<>>]
    ELSE LET key == changes[1][1]
             r == IF open THEN KVStoreSet(db, key, changes[1][2])
                  ELSE [db |-> db, raised |-> TRUE]
         IN  IF r.raised
             THEN [db |-> r.db, raised |-> TRUE,
                   log |-> <<LogRecord("Error setting key ", key)>>]
             ELSE LET s == ApplyChanges(r.db, open, Tail(changes))
                  IN  [s EXCEPT !.log = <<LogRecord("Set key ", key)>> \o @]

\* The second loop of commit: kv_store.delete for each key of deletions, up
\* to the first that raises (any key on a closed shelf); a key the store
\* does not have is left without a log record.
RECURSIVE ApplyDeletions(_, _, _)
ApplyDeletions(db, open, deletions) ==
    IF deletions = <<>> THEN [db |-> db, raised |-> FALSE, log |-> <<>>]
    ELSE LET key == deletions[1]
         IN  IF ~open
             THEN [db |-> db, raised |-> TRUE,
                   log |-> <<LogRecord("Error deleting key ", key)>>]
             ELSE LET s == ApplyDeletions(KVStoreDelete(db, key), open,
                                          Tail(deletions))
                  IN  [s EXCEPT !.log =
                          (IF key \in KVStoreKeys(db)
                           THEN <<LogRecord("Deleted key ", key)>>
                           ELSE <<>>) \o @]

\* Transaction.commit with a failed commit taking back the sets it had applied:
\* the variant C23 must tell from the code.
CommitUndoing(t, db, open) ==
    IF Completed(t)
    THEN [tx |-> t, db |-> db, exc |-> TransactionError, log |-> <<>>]
    ELSE LET s == ApplyChanges(db, open, t.changes)
             d == ApplyDeletions(s.db, open, t.deletions)
         IN  IF s.raised \/ d.raised
             THEN [tx |-> TransactionRollback(t).tx, db |-> db,
                   exc |-> TransactionError,
                   log |-> IF s.raised THEN s.log ELSE s.log \o d.log]
             ELSE [tx |-> [t EXCEPT !.committed = TRUE], db |-> d.db,
                   exc |-> NoExc, log |-> s.log \o d.log]

\* Transaction.commit: the two loops; committed is set after both, and an
\* exception out of either goes through rollback and leaves as
\* TransactionError, with the store as the loops left it.
TransactionCommit(t, db, open) ==
    IF Completed(t)
    THEN [tx |-> t, db |-> db, exc |-> TransactionError, log |-> <<>>]
    ELSE LET s == ApplyChanges(db, open, t.changes)
             d == ApplyDeletions(s.db, open, t.deletions)
         IN  IF s.raised
             THEN [tx |-> TransactionRollback(t).tx, db |-> s.db,
                   exc |-> TransactionError, log |-> s.log]
             ELSE IF d.raised
             THEN [tx |-> TransactionRollback(t).tx, db |-> d.db,
                   exc |-> TransactionError, log |-> s.log \o d.log]
             ELSE [tx |-> [t EXCEPT !.committed = TRUE], db |-> d.db,
                   exc |-> NoExc, log |-> s.log \o d.log]

\* `except Exception` catches the subclasses of Exception only.
IsException(e) == e \in {ValueError, TransactionError}

\* The except clause of TransactionManager.transaction, entered with e.
ExceptClause(t, db, e) ==
    IF ~t.rolled_back
    THEN LET r == TransactionRollback(t)
         IN  [tx |-> r.tx, db |-> db, exc |-> IF r.exc # NoExc THEN r.exc ELSE e]
    ELSE [tx |-> t, db |-> db, exc |-> e]

\* TransactionManager.transaction after the yield: the body returned
\* (bodyExc = NoExc) or raised bodyExc.
ScopeExit(t, db, open, bodyExc) ==
    IF bodyExc = NoExc
    THEN IF ~t.committed /\ ~t.rolled_back
         THEN LET r == TransactionCommit(t, db, open)
                  x == ExceptClause(r.tx, r.db, r.exc)
              IN  IF r.exc = NoExc THEN r
                  ELSE [tx |-> x.tx, db |-> x.db, exc |-> x.exc, log |-> r.log]
         ELSE [tx |-> t, db |-> db, exc |-> NoExc, log |-> <<>>]
    ELSE LET x == ExceptClause(t, db, bodyExc)
         IN  IF IsException(bodyExc)
             THEN [tx |-> x.tx, db |-> x.db, exc |-> x.exc, log |-> <<>>]
             ELSE [tx |-> t, db |-> db, exc |-> bodyExc, log |-> <<>>]

\* threading.local(): each thread reads and writes its own `transaction`.
LocalSlot(c) == c

\* The scope's exit without its finally clause: the variant C9 must tell from
\* the code.
FinallyMissing(cur, c) == cur

\* The finally clause: self._local.transaction = None (0 is None).
Finally(cur, c) == [cur EXCEPT ![LocalSlot(c)] = 0]

\* ------------------------------------------------------------------ table.py

\* The composite key f"{name}:{key}" and the prefix f"{name}:".
RowKey(name, id) == <<name, ":", id>>
Prefix(name) == <<name, ":">>

\* str.startswith
StartsWith(s, p) == Len(s) >= Len(p) /\ SubSeq(s, 1, Len(p)) = p

\* uuid.uuid4(): the n-th identifier drawn, never drawn before.
Uuid4(n) == "u" \o ToString(n)

\* json.dumps of the row's columns, and json.loads of it.
JsonDumps(row) == <<"{", row, "}">>
JsonLoads(data) == data[2]

\* Table.list_rows: the rows under the table's prefix, as a bag.
RECURSIVE RowsOf(_, _)
RowsOf(db, keys) ==
    IF keys = {} THEN EmptyBag
    ELSE LET key == CHOOSE k \in keys : TRUE
             data == KVStoreGet(db, key)
             rest == RowsOf(db, keys \ {key})
         IN  IF ~StartsWith(data, <<"Key ">>)
             THEN rest (+) SetToBag({JsonLoads(data)})
             ELSE rest

ListRows(db, name) ==
    RowsOf(db, {key \in KVStoreKeys(db) : StartsWith(key, Prefix(name))})

\* A Row object with the columns cols.
Row(cols) == <<"Row", cols>>

\* Table.query: the row under the id, or None.
TableQuery(d, name, id) ==
    LET data == KVStoreGet(d, RowKey(name, id))
    IN  IF StartsWith(data, <<"Key ">>) THEN None ELSE Row(JsonLoads(data))

\* `if not row`: a Row object is truthy, None is not.
Falsy(row) == row = None

\* json.dumps then json.loads of one value: a tuple comes back as a list,
\* the other values as they were.
ListOf == "(1, 2)" :> "[1, 2]"
JsonValue(v) == IF v[1] = "tuple" THEN <<"list", ListOf[v[2]]>> ELSE v

\* The columns as json.loads returns them from what json.dumps wrote.
JsonEncode(cols) == [f \in DOMAIN cols |-> JsonValue(cols[f])]

\* ------------------------------------------------------------------ python values

\* str(value)
Str(v) == v[2]

\* The number an int or a finite float stands for.
NumberOf == ("1" :> 1) @@ ("2" :> 2) @@ ("2.0" :> 2) @@ ("200" :> 200)
IsNumber(v) == v[1] \in {"int", "float"} /\ v[2] \in DOMAIN NumberOf

\* a == b
PyEq(a, b) ==
    IF IsNumber(a) /\ IsNumber(b)
    THEN NumberOf[a[2]] = NumberOf[b[2]]
    ELSE a = b

\* dict.get(field): the value, None for an absent key.
ColumnGet(cols, f) == IF f \in DOMAIN cols THEN cols[f] ELSE PyNone

\* int(value) for a value that is not an int: a string of digits and a
\* finite float become an int; other strings raise ValueError, an infinite
\* float OverflowError, a tuple TypeError.
Digits == "1" :> "1"
Truncated == "2.0" :> "2"
IntOf(v) ==
    CASE v[1] = "str" /\ v[2] \in DOMAIN Digits ->
             [value |-> <<"int", Digits[v[2]]>>, exc |-> NoExc]
      [] v[1] = "str" -> [value |-> v, exc |-> ValueError]
      [] v[1] = "float" /\ v[2] \in DOMAIN Truncated ->
             [value |-> <<"int", Truncated[v[2]]>>, exc |-> NoExc]
      [] v[1] = "float" -> [value |-> v, exc |-> OverflowError]
      [] OTHER -> [value |-> v, exc |-> TypeError]

\* ------------------------------------------------------------------ schema.py

\* Field.validate with field_type int.
FieldValidate(field, value) ==
    IF value = PyNone
    THEN IF field.required
         THEN [value |-> value, exc |-> SchemaValidationError]
         ELSE [value |-> field.default, exc |-> NoExc]
    ELSE IF value[1] # "int"
         THEN LET r == IntOf(value)
              IN  IF r.exc \in {ValueError, TypeError}
                  THEN [value |-> value, exc |-> SchemaValidationError]
                  ELSE r
         ELSE [value |-> value, exc |-> NoExc]

\* IntegerField.validate: Field.validate, then the range.
IntegerFieldValidate(field, value) ==
    LET r == FieldValidate(field, value)
    IN  IF r.exc # NoExc \/ r.value = PyNone THEN r
        ELSE IF NumberOf[r.value[2]] < field.min_value
                \/ NumberOf[r.value[2]] > field.max_value
             THEN [value |-> r.value, exc |-> SchemaValidationError]
             ELSE r

\* Schema.validate: a missing required field, a field that does not
\* validate and an unknown field raise; else the validated columns.
SchemaValidate(fields, data) ==
    LET missing == {f \in DOMAIN fields \ DOMAIN data : fields[f].required}
        given == DOMAIN fields \cap DOMAIN data
        results == [f \in given |-> IntegerFieldValidate(fields[f], data[f])]
        failing == {f \in given : results[f].exc # NoExc}
        defaults == {f \in DOMAIN fields \ DOMAIN data :
                        fields[f].default # PyNone}
        unknown == DOMAIN data \ DOMAIN fields
    IN  IF failing # {}
        THEN [data |-> data, exc |-> results[CHOOSE f \in failing : TRUE].exc]
        ELSE IF missing # {} \/ unknown # {}
        THEN [data |-> data, exc |-> SchemaValidationError]
        ELSE [data |-> [f \in given \cup defaults |->
                          IF f \in given THEN results[f].value
                          ELSE fields[f].default],
              exc |-> NoExc]

\* Table._validate_row: the columns as they are without a schema.
ValidateRow(sch, cols) ==
    IF sch = NoSchema THEN [data |-> cols, exc |-> NoExc]
    ELSE SchemaValidate(sch[1], cols)

\* The validation raised, and the exception leaves insert or update.
Raises(v) == v.exc # NoExc

\* ------------------------------------------------------------------ indexing.py

\* IndexManager's key of an index, and the store key of its blob.
IndexName(table, field) == <<table, ":", field>>
IndexKey(table, field) == <<"idx", ":", table, ":", field>>

\* An Index with no bucket.
EmptyIndex == [b \in {} |-> {}]

\* Index._load_index: the buckets of the stored blob, none without a blob.
IndexLoad(d, table, field) ==
    LET index_data == KVStoreGet(d, IndexKey(table, field))
    IN  IF StartsWith(index_data, <<"Key ">>) THEN EmptyIndex
        ELSE JsonLoads(index_data)

\* Index._save_index without its write to the store: the variant C24 must
\* tell from the code.
SaveSkipped(d, table, field, ix) == d

\* Index._save_index
IndexSave(d, table, field, ix) ==
    KVStoreSet(d, IndexKey(table, field), JsonDumps(ix)).db

\* Index.add_entry: None is not indexed; the bucket is str(value).
IndexAddEntry(ix, d, table, field, row_key, value) ==
    IF value = PyNone THEN [index |-> ix, db |-> d]
    ELSE LET b == Str(value)
             new == [k \in DOMAIN ix \cup {b} |->
                        (IF k \in DOMAIN ix THEN ix[k] ELSE {})
                            \cup (IF k = b THEN {row_key} ELSE {})]
         IN  [index |-> new, db |-> IndexSave(d, table, field, new)]

\* Index.remove_entry: only a bucket str(value) that exists is touched, and
\* an emptied bucket is dropped.
IndexRemoveEntry(ix, d, table, field, row_key, value) ==
    IF value = PyNone \/ Str(value) \notin DOMAIN ix
    THEN [index |-> ix, db |-> d]
    ELSE LET b == Str(value)
             new == IF ix[b] \ {row_key} = {}
                    THEN [k \in DOMAIN ix \ {b} |-> ix[k]]
                    ELSE [ix EXCEPT ![b] = @ \ {row_key}]
         IN  [index |-> new, db |-> IndexSave(d, table, field, new)]

\* Index.update_entry
IndexUpdateEntry(ix, d, table, field, row_key, old_value, new_value) ==
    LET r == IndexRemoveEntry(ix, d, table, field, row_key, old_value)
    IN  IndexAddEntry(r.index, r.db, table, field, row_key, new_value)

\* Index.find_rows
IndexFindRows(ix, value) ==
    IF Str(value) \in DOMAIN ix THEN ix[Str(value)] ELSE {}

\* ------------------------------------------------------------------ table.py, with schema and index

\* IndexManager.get_index is not None
HasIndex(ixs, table, field) == IndexName(table, field) \in DOMAIN ixs

\* The loop of Table.insert over the validated columns: add_entry on the
\* index of each column that has one.
RECURSIVE AddEntries(_, _, _, _, _, _)
AddEntries(ixs, d, table, row_key, data, fields) ==
    IF fields = {} THEN [indexes |-> ixs, db |-> d]
    ELSE LET f == CHOOSE x \in fields : TRUE
             n == IndexName(table, f)
         IN  IF HasIndex(ixs, table, f)
             THEN LET r == IndexAddEntry(ixs[n], d, table, f, row_key, data[f])
                  IN  AddEntries([ixs EXCEPT ![n] = r.index], r.db, table,
                                 row_key, data, fields \ {f})
             ELSE AddEntries(ixs, d, table, row_key, data, fields \ {f})

\* The loop of Table.update over the updates: update_entry with the stored
\* value as the old one and the caller's value as the new one.
RECURSIVE UpdateEntries(_, _, _, _, _, _, _)
UpdateEntries(ixs, d, table, row_key, columns, updates, fields) ==
    IF fields = {} THEN [indexes |-> ixs, db |-> d]
    ELSE LET f == CHOOSE x \in fields : TRUE
             n == IndexName(table, f)
         IN  IF HasIndex(ixs, table, f)
             THEN LET r == IndexUpdateEntry(ixs[n], d, table, f, row_key,
                                            ColumnGet(columns, f), updates[f])
                  IN  UpdateEntries([ixs EXCEPT ![n] = r.index], r.db, table,
                                    row_key, columns, updates, fields \ {f})
             ELSE UpdateEntries(ixs, d, table, row_key, columns, updates,
                                fields \ {f})

\* The loop of Table.delete over the stored columns: remove_entry with the
\* stored value.
RECURSIVE RemoveEntries(_, _, _, _, _, _)
RemoveEntries(ixs, d, table, row_key, columns, fields) ==
    IF fields = {} THEN [indexes |-> ixs, db |-> d]
    ELSE LET f == CHOOSE x \in fields : TRUE
             n == IndexName(table, f)
         IN  IF HasIndex(ixs, table, f)
             THEN LET r == IndexRemoveEntry(ixs[n], d, table, f, row_key,
                                            columns[f])
                  IN  RemoveEntries([ixs EXCEPT ![n] = r.index], r.db, table,
                                    row_key, columns, fields \ {f})
             ELSE RemoveEntries(ixs, d, table, row_key, columns, fields \ {f})

\* [self.query(key) for key in keys], as a bag.
RECURSIVE QueryAll(_, _, _)
QueryAll(d, name, keys) ==
    IF keys = {} THEN EmptyBag
    ELSE LET key == CHOOSE k \in keys : TRUE
         IN  QueryAll(d, name, keys \ {key})
                 (+) SetToBag({TableQuery(d, name, key)})

\* The rows of the bag B whose columns are in the set S, as Row objects.
RowsWhere(B, S) == [r \in {Row(c) : c \in BagToSet(B) \cap S} |-> B[r[2]]]

\* Table.query_by_field: the rows of the keys in the index bucket, or
\* without an index the rows of list_rows whose column equals the value.
TableQueryByField(ixs, d, name, field, value) ==
    IF ~HasIndex(ixs, name, field)
    THEN LET rows == ListRows(d, name)
         IN  RowsWhere(rows, {c \in BagToSet(rows) :
                                 PyEq(ColumnGet(c, field), value)})
    ELSE QueryAll(d, name, IndexFindRows(ixs[IndexName(name, field)], value))

\* A delete that leaves the row in the store: the variant C17 must tell
\* from the code.
RowKept(d, name, id) == d

\* self.kv_store.delete(f"{self.name}:{key}")
RowDeleted(d, name, id) == KVStoreDelete(d, RowKey(name, id))

\* Table.insert of a table without schema: the row under the key, then the
\* index entries of its columns.
InsertRow(ixs, d, name, key, cols) ==
    AddEntries(ixs, KVStoreSet(d, RowKey(name, key),
                               JsonDumps(JsonEncode(cols))).db,
               name, key, cols, DOMAIN cols)

\* Table.delete: False for a key with no row; else the index entries of the
\* stored columns are removed, then the row.
DeleteRow(ixs, d, name, key) ==
    LET row == TableQuery(d, name, key)
    IN  IF Falsy(row) THEN [indexes |-> ixs, db |-> d, ret |-> PyFalse]
        ELSE LET r == RemoveEntries(ixs, d, name, key, row[2], DOMAIN row[2])
             IN  [indexes |-> r.indexes, db |-> RowDeleted(r.db, name, key),
                  ret |-> PyTrue]

\* str() of a Row object inside f"{self.name}:{key}": Row defines neither
\* __str__ nor __repr__, so it is the default text of an object and never
\* the uuid the row is stored under.
ObjectStr(row) == "<table.Row object>"

\* The loop of MiniDB.drop_table: table.delete(row) for each Row object of
\* the list that list_rows returned.
RECURSIVE DropRows(_, _, _, _)
DropRows(ixs, d, name, rows) ==
    IF BagToSet(rows) = {} THEN [indexes |-> ixs, db |-> d]
    ELSE LET c == CHOOSE x \in BagToSet(rows) : TRUE
             r == DeleteRow(ixs, d, name, ObjectStr(Row(c)))
         IN  DropRows(r.indexes, r.db, name, rows (-) SetToBag({c}))

\* ------------------------------------------------------------------ connection.py

\* Connection.__init__: a connection whose store is open and that nobody
\* uses.  faulty tells whether closing its store raises; closes counts the
\* calls of Connection.close on it.
NewConnection(faulty) ==
    [in_use |-> FALSE, open |-> TRUE, closes |-> 0, faulty |-> faulty]

\* Whether Connection.close on the object id raises ConnectionError: the
\* sync of a faulty store fails at the close of the open shelf; a shelf that
\* is closed already has nothing to sync.
CloseRaises(o, id) == o[id].faulty /\ o[id].open

\* Connection.close on the object id of the heap o: shelve.Shelf.close
\* leaves the shelf closed whether its sync raised or not.
ConnectionClose(o, id) ==
    [o EXCEPT ![id].closes = @ + 1, ![id].open = FALSE]

\* A queue read that leaves the item in the queue: the variant C11 must
\* tell from the code.
QueuePeek(q) == [item |-> Head(q), rest |-> q]

\* queue.Queue.get on a queue that is not empty: the oldest item, removed.
QueueGet(q) == [item |-> Head(q), rest |-> Tail(q)]

\* queue.Queue.put on a queue of maxsize n: queue.Full leaves it as it was.
QueuePut(q, item, n) == IF Len(q) < n THEN Append(q, item) ELSE q

\* A ready queue one place smaller than the pool: the variant C27 must tell
\* from the code.
QueueSmaller(n) == n - 1

\* queue.Queue(maxsize=max_connections)
QueueMaxsize(n) == n

\* A creation path that no lock guards: the variant C12 must tell from the
\* code.
Unlocked(l) == TRUE

\* `with self._lock:` can be entered: no thread holds the lock.
LockFree(l) == l = ""

\* A get_connection that does not test the closed flag: the variant C13
\* must tell from the code.
ClosedIgnored(c) == FALSE

\* if self.closed: raise ConnectionError("Connection pool is closed")
ClosedCheck(c) == c

\* A creation path without the capacity test: the variant C15 must tell
\* from the code.
AlwaysBelowMax(roster, n) == TRUE

\* len(self.connections) < self.max_connections
BelowMax(roster, n) == Len(roster) < n

\* A release that runs only when the body returns: the variant C16 must
\* tell from the code.
ReleaseOnReturn(bodyExc) == bodyExc = NoExc

\* The finally clause of get_connection runs however the body ends.
ReleaseAlways(bodyExc) == TRUE

\* A roster loop that a close failure ends: the variant C14 must tell from
\* the code.
StopOnFailure(i, failed, n) == IF failed THEN n + 1 ELSE i + 1

\* The roster loop of close(): the try/except is inside the loop, so the
\* loop goes on to the next connection whether the close failed or not.
NextInRoster(i, failed, n) == i + 1

\* `with self.connection_pool.get_connection() as connection:` run from
\* entry to exit by the one thread that uses the pool: the ready connection
\* is taken and put back; on an empty queue a connection is created below
\* max_connections (opened: shelve.open succeeds), appended to the roster
\* and put on the queue when the block ends.
Lease(rdy, conns, o, opened) ==
    IF rdy # <<>>
    THEN LET g == QueueGet(rdy)
         IN  [ready |-> QueuePut(g.rest, g.item, QueueMaxsize(MaxConnections)),
              connections |-> conns,
              objs |-> [o EXCEPT ![g.item].in_use = FALSE],
              exc |-> NoExc]
    ELSE IF ~BelowMax(conns, MaxConnections)
    THEN [ready |-> rdy, connections |-> conns, objs |-> o,
          exc |-> MaxReachedError]
    ELSE IF ~opened
    THEN [ready |-> rdy, connections |-> conns, objs |-> o,
          exc |-> CreateFailedError]
    ELSE [ready |-> QueuePut(rdy, Len(o) + 1, QueueMaxsize(MaxConnections)),
          connections |-> Append(conns, Len(o) + 1),
          objs |-> Append(o, NewConnection(FALSE)),
          exc |-> NoExc]

\* Connection.close on each object of ids in turn.
RECURSIVE CloseEach(_, _)
CloseEach(o, ids) ==
    IF ids = <<>> THEN o
    ELSE CloseEach(ConnectionClose(o, Head(ids)), Tail(ids))

\* ConnectionPool.close() run from entry to exit by the one thread that
\* uses the pool: nothing on a closed pool; else the flag is set, the ready
\* queue is emptied with each connection taken from it closed, and every
\* connection of the roster is closed (again, for the ones that were
\* queued).  An exception of a close is logged and the loops go on.
PoolClose(c, rdy, conns, o) ==
    IF c THEN [closed |-> c, ready |-> rdy, objs |-> o]
    ELSE [closed |-> TRUE, ready |-> <<>>,
          objs |-> CloseEach(CloseEach(o, rdy), conns)]

\* ------------------------------------------------------------------ state

VARIABLES
    db,         \* the shelf of the KVStore: key -> value, for the keys present
    tx,         \* per context: the Transaction its latest scope created (a
                \* placeholder while created is 0)
    created,    \* per context: how many Transactions its scopes have created
    current,    \* per context: _local.transaction, 0 for None, else the
                \* ordinal (in created) of the Transaction
    pc,         \* per context: "idle", or "body" inside a scope's body
    uuids,      \* how many uuid4 identifiers have been drawn
    scopeRows,  \* per context: the row keys the body of its scope inserted
    last,       \* the last call: who made it, its argument, what it returned
                \* and what it raised
    closed,     \* ConnectionPool.closed
    ready,      \* ConnectionPool.pool, the queue of ready connections
    connections,\* ConnectionPool.connections, the roster
    objs,       \* the Connection objects constructed, by ordinal
    lock,       \* the holder inside `with self._lock:`, "" for none
    ppc,        \* per holder: where it stands in get_connection or close
    held,       \* per holder: its local `connection`, 0 for None
    cursor,     \* per holder: the position of its loop over the roster
    schema,     \* Table.schema: <<>> for None, else <<the fields>>
    indexes,    \* IndexManager.indexes of the tables: index name -> buckets
    tables,     \* MiniDB.tables: the names that have a Table
    inCall      \* per context: the call its thread is inside of while
                \* another thread runs (commit, the scope's exit, get), the
                \* store operation it has reached and where in it the
                \* thread is, what its test saw, whether the directory
                \* file it opened has been renamed away since, and for its
                \* loop over the dbm's index the size the index had when
                \* the loop began, the steps the loop has left and whether
                \* another thread has put a key in or taken one out since

poolVars == <<closed, ready, connections, objs, lock, ppc, held, cursor>>

tableVars == <<schema, indexes, tables>>

vars == <<db, tx, created, current, pc, uuids, scopeRows, last, poolVars,
          tableVars, inCall>>

\* A call as `last` keeps it; log is what the store logged during a commit.
Call(c, op, arg, ret, exc) ==
    [ctx |-> c, op |-> op, arg |-> arg, ret |-> ret, exc |-> exc, log |-> <<>>]

\* Whether the shelf that the transactions and the tables are bound to is
\* open.  It is the store of the pool's first connection: the one thread of
\* MiniDB is handed that connection by every lease (begin_transaction,
\* create_table), and MiniDB.close closes it.  Where no pool has made a
\* connection the store was opened by the caller and stays open.
ShelfOpen == connections = <<>> \/ objs[connections[1]].open

\* A thread that is inside no call that another thread can run into.
NoCall == [via |-> "", k |-> 0, at |-> "", seen |-> FALSE, key |-> <<>>,
           syncs |-> 0, lost |-> FALSE, size |-> 0, left |-> 0,
           changed |-> FALSE]

\* ConnectionPool.__init__: an empty queue, an empty roster, not closed.
PoolInit ==
    /\ closed = FALSE
    /\ ready = <<>>
    /\ connections = <<>>
    /\ objs = <<>>
    /\ lock = ""
    /\ ppc = [h \in Holders |-> "idle"]
    /\ held = [h \in Holders |-> 0]
    /\ cursor = [h \in Holders |-> 0]

\* Table.__init__ with the schema sch: no index yet.
TableInit(sch) ==
    /\ schema = sch
    /\ indexes = [n \in {} |-> EmptyIndex]
    /\ tables = {}

\* An empty store, a TransactionManager no context has used, no uuid drawn.
TxInit ==
    /\ db = <<>>
    /\ tx = [c \in Contexts |-> NewTransaction]
    /\ created = [c \in Contexts |-> 0]
    /\ current = [c \in Contexts |-> 0]
    /\ pc = [c \in Contexts |-> "idle"]
    /\ uuids = 0
    /\ scopeRows = [c \in Contexts |-> {}]
    /\ last = Call("t1", "init", <<>>, None, NoExc)
    /\ inCall = [c \in Contexts |-> NoCall]

Init ==
    /\ PoolInit
    /\ TxInit
    /\ TableInit(NoSchema)

\* The manager without its test for a transaction in progress: the variant
\* C7 must tell from the code.
NeverInProgress(cur, c) == FALSE

\* self.current_transaction is not None
InProgress(cur, c) == cur[LocalSlot(c)] # 0

\* Entering `with manager.transaction(kv_store) as transaction:`; at most
\* maxScopes times.
Enter(c, maxScopes) ==
    IF InProgress(current, c)
    THEN /\ last' = Call(c, "enter", <<>>, None, TransactionError)
         /\ UNCHANGED <<db, tx, created, current, pc, uuids, scopeRows>>
    ELSE /\ created[c] < maxScopes
         /\ tx' = [tx EXCEPT ![c] = NewTransaction]
         /\ created' = [created EXCEPT ![c] = @ + 1]
         /\ current' = [current EXCEPT ![LocalSlot(c)] = created[c] + 1]
         /\ pc' = [pc EXCEPT ![c] = "body"]
         /\ scopeRows' = [scopeRows EXCEPT ![c] = {}]
         /\ last' = Call(c, "enter", <<>>, None, NoExc)
         /\ UNCHANGED <<db, uuids>>

\* Entering `with db.begin_transaction() as transaction:`:
\* MiniDB.begin_transaction leases a connection of the pool for the time it
\* takes to make the scope on that connection's store (ConnectionError from
\* a closed pool or a store that cannot be opened: no scope), then the scope
\* is entered.
BeginTransaction(c, opened, maxScopes) ==
    /\ IF ClosedCheck(closed)
       THEN /\ last' = Call(c, "begin_transaction", <<>>, None, PoolClosedError)
            /\ UNCHANGED <<ready, connections, objs, db, tx, created, current,
                           pc, uuids, scopeRows>>
       ELSE LET l == Lease(ready, connections, objs, opened)
            IN  /\ ready' = l.ready
                /\ connections' = l.connections
                /\ objs' = l.objs
                /\ IF l.exc # NoExc
                   THEN /\ last' = Call(c, "begin_transaction", <<>>, None, l.exc)
                        /\ UNCHANGED <<db, tx, created, current, pc, uuids,
                                       scopeRows>>
                   ELSE Enter(c, maxScopes)
    /\ UNCHANGED <<closed, lock, ppc, held, cursor>>

\* MiniDB.close(): the pool is closed, and with it the shelf of every
\* connection; the Transactions and Tables made on them stay as they are.
DbClose(c) ==
    /\ LET r == PoolClose(closed, ready, connections, objs)
       IN  /\ closed' = r.closed
           /\ ready' = r.ready
           /\ objs' = r.objs
    /\ last' = Call(c, "close", <<>>, None, NoExc)
    /\ UNCHANGED <<connections, lock, ppc, held, cursor, db, tx, created,
                   current, pc, uuids, scopeRows>>

\* Leaving the scope: the body returned (bodyExc = NoExc) or raised bodyExc.
Exit(c, bodyExc) ==
    /\ pc[c] = "body"
    /\ LET r == ScopeExit(tx[c], db, ShelfOpen, bodyExc)
       IN  /\ tx' = [tx EXCEPT ![c] = r.tx]
           /\ db' = r.db
           /\ last' = [Call(c, "exit", <<bodyExc>>, None, r.exc)
                          EXCEPT !.log = r.log]
    /\ current' = Finally(current, c)
    /\ pc' = [pc EXCEPT ![c] = "idle"]
    /\ UNCHANGED <<created, uuids, scopeRows>>

\* Whether the bound lets set or delete stage key: a call on a completed
\* Transaction stages nothing, a set of a staged key replaces it.
Room(t, key, maxStaged) ==
    Completed(t) \/ InChanges(t.changes, key)
                 \/ Len(t.changes) + Len(t.deletions) < maxStaged

\* transaction.set(key, value) on the Transaction the context's scope yielded,
\* inside the scope or after it.
Set(c, key, value, maxStaged) ==
    /\ created[c] > 0
    /\ Room(tx[c], key, maxStaged)
    /\ LET r == TransactionSet(tx[c], key, value)
       IN  /\ tx' = [tx EXCEPT ![c] = r.tx]
           /\ last' = Call(c, "set", <<>>, None, r.exc)
    /\ UNCHANGED <<db, created, current, pc, uuids, scopeRows>>

\* transaction.delete(key)
Delete(c, key, maxStaged) ==
    /\ created[c] > 0
    /\ Room(tx[c], key, maxStaged)
    /\ LET r == TransactionDelete(tx[c], key)
       IN  /\ tx' = [tx EXCEPT ![c] = r.tx]
           /\ last' = Call(c, "delete", <<>>, None, r.exc)
    /\ UNCHANGED <<db, created, current, pc, uuids, scopeRows>>

\* transaction.get(key)
Get(c, key) ==
    /\ created[c] > 0
    /\ LET r == TransactionGet(tx[c], db, ShelfOpen, key)
       IN  last' = Call(c, "get", key, r.ret, r.exc)
    /\ UNCHANGED <<db, tx, created, current, pc, uuids, scopeRows>>

\* transaction.commit()
Commit(c) ==
    /\ created[c] > 0
    /\ LET r == TransactionCommit(tx[c], db, ShelfOpen)
       IN  /\ tx' = [tx EXCEPT ![c] = r.tx]
           /\ db' = r.db
           /\ last' = [Call(c, "commit", <<>>, None, r.exc) EXCEPT !.log = r.log]
    /\ UNCHANGED <<created, current, pc, uuids, scopeRows>>

\* transaction.rollback()
Rollback(c) ==
    /\ created[c] > 0
    /\ LET r == TransactionRollback(tx[c])
       IN  /\ tx' = [tx EXCEPT ![c] = r.tx]
           /\ last' = Call(c, "rollback", <<>>, None, r.exc)
    /\ UNCHANGED <<db, created, current, pc, uuids, scopeRows>>

\* Table.insert(Row(...)) on a table without schema or index, whose store is
\* the one the transactions are bound to: the uuid is drawn, then the row is
\* written; on a closed shelf the write raises after the draw.
Insert(c) ==
    /\ uuids < MaxRows
    /\ LET key == Uuid4(uuids + 1)
           full_key == RowKey(TableName, key)
       IN  IF ShelfOpen
           THEN /\ db' = KVStoreSet(db, full_key, JsonDumps(RowData)).db
                /\ scopeRows' = [scopeRows EXCEPT ![c] =
                                   IF pc[c] = "body" THEN @ \cup {full_key} ELSE @]
                /\ last' = Call(c, "insert", <<>>, <<key>>, NoExc)
           ELSE /\ last' = Call(c, "insert", <<>>, None, ValueError)
                /\ UNCHANGED <<db, scopeRows>>
    /\ uuids' = uuids + 1
    /\ UNCHANGED <<tx, created, current, pc>>

\* The row keys Table.insert has drawn so far.
InsertedKeys == {RowKey(TableName, Uuid4(n)) : n \in 1..uuids}

\* kv_store.set_many(items), on the store itself.
SetMany(c, items) ==
    /\ LET r == KVStoreSetMany(db, ShelfOpen, items)
       IN  /\ db' = r.db
           /\ last' = Call(c, "set_many", <<>>, None, r.exc)
    /\ UNCHANGED <<tx, created, current, pc, uuids, scopeRows>>

\* kv_store.delete_many(keys), on the store itself.
DeleteMany(c, keys) ==
    /\ LET r == KVStoreDeleteMany(db, ShelfOpen, keys)
       IN  /\ db' = r.db
           /\ last' = Call(c, "delete_many", <<>>, None, r.exc)
    /\ UNCHANGED <<tx, created, current, pc, uuids, scopeRows>>

\* kv_store.clear(), on the store itself.
Clear(c) ==
    /\ LET r == KVStoreClear(db, ShelfOpen)
       IN  /\ db' = r.db
           /\ last' = Call(c, "clear", <<>>, None, r.exc)
    /\ UNCHANGED <<tx, created, current, pc, uuids, scopeRows>>

\* One context, two keys, a value that cannot be stored, a table, the bulk
\* operations of the store, and the close of the database.
Next ==
    /\ \E c \in Single :
        \/ \E opened \in BOOLEAN : BeginTransaction(c, opened, MaxScopes)
        \/ DbClose(c)
        \/ /\ UNCHANGED poolVars
           /\ \/ \E e \in BodyExceptions \cup {NoExc} : Exit(c, e)
              \/ \E key \in Keys, value \in Values : Set(c, key, value, MaxStaged)
              \/ \E key \in Keys : Delete(c, key, MaxStaged)
              \/ \E key \in Keys \cup InsertedKeys : Get(c, key)
              \/ Commit(c)
              \/ Rollback(c)
              \/ Insert(c)
              \/ \E items \in ItemLists : SetMany(c, items)
              \/ \E keys \in KeyLists : DeleteMany(c, keys)
              \/ Clear(c)
    /\ UNCHANGED <<tableVars, inCall>>

Spec == Init /\ [][Next]_vars

\* With two threads on one store nothing makes a call that reaches the
\* store atomic: commit takes no lock, the store tests for the key and then
\* acts on it, and the shelf's dbm (dbm.dumb, plain Python) reads its index,
\* changes it, rewrites its directory file by rename, open and chmod, and
\* loops over the index to fill the file.  The actions below are commit, the
\* commit of the scope's exit and get, one access to the index or to the
\* directory file at a time.  (A dbm in C does each store operation in one
\* call: the behaviours in which a thread's steps of one operation follow
\* each other.)

\* The thread of context c is inside commit, the scope's exit or get.
InCall(c) == inCall[c].via # ""

\* Where a thread is between the open of the directory file and the chmod
\* that follows it (_addkey, _commit).
Window == {"chmod_a", "chmod"}

\* The k-th store operation of commit: the staged sets in dict order, then
\* the staged deletions.
OpOf(t, k) ==
    IF k <= Len(t.changes)
    THEN [op |-> "set", key |-> t.changes[k][1], value |-> t.changes[k][2]]
    ELSE [op |-> "delete", key |-> t.deletions[k - Len(t.changes)],
          value |-> None]

\* commit returns or raises e with the Transaction as t: a commit the body
\* called goes back to the body, the commit of the scope's exit goes on
\* through the except clause and the finally clause.
CommitEnds(c, t, e) ==
    /\ inCall' = [inCall EXCEPT ![c] = NoCall]
    /\ IF inCall[c].via = "commit"
       THEN /\ tx' = [tx EXCEPT ![c] = t]
            /\ last' = Call(c, "commit", <<>>, None, e)
            /\ UNCHANGED <<current, pc>>
       ELSE LET r == IF e = NoExc THEN [tx |-> t, db |-> db, exc |-> NoExc]
                     ELSE ExceptClause(t, db, e)
            IN  /\ tx' = [tx EXCEPT ![c] = r.tx]
                /\ last' = Call(c, "exit", <<NoExc>>, None, r.exc)
                /\ current' = Finally(current, c)
                /\ pc' = [pc EXCEPT ![c] = "idle"]

\* The except clause of commit: rollback, then TransactionError.
CommitFails(c) ==
    CommitEnds(c, TransactionRollback(tx[c]).tx, TransactionError)

\* transaction.commit() is called: a completed Transaction raises, an open
\* one starts on its first store operation.
CommitBegin(c) ==
    /\ created[c] > 0
    /\ IF Completed(tx[c])
       THEN /\ last' = Call(c, "commit", <<>>, None, TransactionError)
            /\ UNCHANGED inCall
       ELSE /\ inCall' = [inCall EXCEPT ![c] =
                   [NoCall EXCEPT !.via = "commit", !.k = 1, !.at = "test"]]
            /\ last' = Call(c, "commit_begin", <<>>, None, NoExc)
    /\ UNCHANGED <<db, tx, created, current, pc, uuids, scopeRows>>

\* The body returned with its Transaction open: the scope's exit calls
\* commit.
ExitBegin(c) ==
    /\ pc[c] = "body"
    /\ ~Completed(tx[c])
    /\ inCall' = [inCall EXCEPT ![c] =
          [NoCall EXCEPT !.via = "exit", !.k = 1, !.at = "test"]]
    /\ last' = Call(c, "exit_begin", <<NoExc>>, None, NoExc)
    /\ UNCHANGED <<db, tx, created, current, pc, uuids, scopeRows>>

\* The next store operation of commit, up to the test for the key
\* (`if key in self.db` of KVStore.delete, `if key not in self._index` of the
\* dbm's write): a value that cannot be pickled raises before the store is
\* touched, KVStore.delete leaves a key it does not find, and past the last
\* operation commit sets committed and returns.  After the test a delete
\* goes on to `del self._index[key]`, a write of a key the test saw to the
\* read of its index entry, a write of a new key to _addkey.
StoreTest(c) ==
    /\ inCall[c].via \in {"commit", "exit"}
    /\ inCall[c].at = "test"
    /\ LET t == tx[c]
           k == inCall[c].k
           seen == OpOf(t, k).key \in KVStoreKeys(db)
       IN  IF k > Len(t.changes) + Len(t.deletions)
           THEN CommitEnds(c, [t EXCEPT !.committed = TRUE], NoExc)
           ELSE IF OpOf(t, k).op = "set" /\ ~Picklable(OpOf(t, k).value)
           THEN CommitFails(c)
           ELSE /\ inCall' = [inCall EXCEPT ![c] =
                       IF OpOf(t, k).op = "delete"
                       THEN IF seen THEN [@ EXCEPT !.at = "del", !.seen = TRUE]
                            ELSE [@ EXCEPT !.k = k + 1]
                       ELSE IF seen THEN [@ EXCEPT !.at = "read", !.seen = TRUE]
                       ELSE [@ EXCEPT !.at = "addkey"]]
                /\ last' = Call(c, "test", OpOf(t, k).key, None, NoExc)
                /\ UNCHANGED <<tx, current, pc>>
    /\ UNCHANGED <<db, created, uuids, scopeRows>>

\* The write of a key the test saw reads the key's entry of the index
\* (`pos, siz = self._index[key]`): KeyError when another thread has deleted
\* the key since the test, and the write is not done.
IndexRead(c) ==
    /\ inCall[c].via \in {"commit", "exit"}
    /\ inCall[c].at = "read"
    /\ IF OpOf(tx[c], inCall[c].k).key \notin KVStoreKeys(db)
       THEN CommitFails(c)
       ELSE /\ inCall' = [inCall EXCEPT ![c].at = "write"]
            /\ last' = Call(c, "read", OpOf(tx[c], inCall[c].k).key, None, NoExc)
            /\ UNCHANGED <<tx, current, pc>>
    /\ UNCHANGED <<db, created, uuids, scopeRows>>

\* The change of the dbm's index.  `del self._index[key]` raises KeyError
\* for a key another thread has deleted since the test, and the delete is
\* not done.  `self._index[key] = ...` puts the key in the index, also a key
\* another thread has deleted since this thread read its entry.  The store
\* has the change from here on, whatever becomes of the rest of the
\* operation: a new key is appended to the directory file (_addkey), and
\* every operation rewrites the directory file after it (_commit: once for
\* a write, by KVStore's sync; twice for a delete, by `del` and by sync).  A
\* thread that is in its loop over the index has had a key put in or taken
\* out under it.
StoreWrite(c) ==
    /\ inCall[c].via \in {"commit", "exit"}
    /\ inCall[c].at \in {"addkey", "write", "del"}
    /\ LET o == OpOf(tx[c], inCall[c].k)
           at == inCall[c].at
           after == IF at = "del" THEN KVStoreDelete(db, o.key)
                    ELSE KVStoreSet(db, o.key, o.value).db
       IN  IF at = "del" /\ o.key \notin KVStoreKeys(db)
           THEN /\ CommitFails(c)
                /\ UNCHANGED db
           ELSE /\ db' = after
                /\ inCall' = [x \in Contexts |->
                      IF x = c
                      THEN [inCall[c] EXCEPT
                              !.at = IF at = "addkey" THEN "open_a" ELSE "rename",
                              !.syncs = IF at = "del" THEN 2 ELSE 1,
                              !.seen = FALSE]
                      ELSE IF inCall[x].at = "next"
                              /\ KVStoreKeys(after) # KVStoreKeys(db)
                      THEN [inCall[x] EXCEPT !.changed = TRUE]
                      ELSE inCall[x]]
                /\ last' = Call(c, "write", o.key, None, NoExc)
                /\ UNCHANGED <<tx, current, pc>>
    /\ UNCHANGED <<created, uuids, scopeRows>>

\* _addkey opens the directory file to append to it: the open makes the file
\* when it is not there, for every thread.
AddkeyOpen(c) ==
    /\ inCall[c].at = "open_a"
    /\ inCall' = [x \in Contexts |->
          IF x = c THEN [inCall[c] EXCEPT !.at = "chmod_a", !.lost = FALSE]
          ELSE [inCall[x] EXCEPT !.lost = FALSE]]
    /\ last' = Call(c, "open", <<>>, None, NoExc)
    /\ UNCHANGED <<db, tx, created, current, pc, uuids, scopeRows>>

\* _commit renames the directory file to the backup: a thread that has the
\* directory file open and has not reached its chmod has lost it.
SyncRename(c) ==
    /\ inCall[c].at = "rename"
    /\ inCall' = [x \in Contexts |->
          IF x = c THEN [inCall[c] EXCEPT !.at = "open"]
          ELSE IF inCall[x].at \in Window THEN [inCall[x] EXCEPT !.lost = TRUE]
          ELSE inCall[x]]
    /\ last' = Call(c, "rename", <<>>, None, NoExc)
    /\ UNCHANGED <<db, tx, created, current, pc, uuids, scopeRows>>

\* _commit opens the directory file for writing: the file is there again,
\* for every thread.
SyncOpen(c) ==
    /\ inCall[c].at = "open"
    /\ inCall' = [x \in Contexts |->
          IF x = c THEN [inCall[c] EXCEPT !.at = "chmod", !.lost = FALSE]
          ELSE [inCall[x] EXCEPT !.lost = FALSE]]
    /\ last' = Call(c, "open", <<>>, None, NoExc)
    /\ UNCHANGED <<db, tx, created, current, pc, uuids, scopeRows>>

\* The chmod of the directory file after its open (_addkey, _commit):
\* FileNotFoundError when the file is not there, and the commit fails with
\* the index as it is; else _addkey is done and the sync follows, and
\* _commit goes on to its loop over the index.
Chmod(c) ==
    /\ inCall[c].at \in Window
    /\ IF inCall[c].lost
       THEN CommitFails(c)
       ELSE /\ inCall' = [inCall EXCEPT ![c].at =
                   IF @ = "chmod_a" THEN "rename" ELSE "iter"]
            /\ last' = Call(c, "chmod", <<>>, None, NoExc)
            /\ UNCHANGED <<tx, current, pc>>
    /\ UNCHANGED <<db, created, uuids, scopeRows>>

\* `for key, pos_and_siz_pair in self._index.items()` of _commit begins: the
\* iterator keeps the size the index has now, and is asked for an item once
\* more than the index has keys.
IterBegin(c) ==
    /\ inCall[c].at = "iter"
    /\ inCall' = [inCall EXCEPT ![c] =
          [@ EXCEPT !.at = "next", !.size = Cardinality(KVStoreKeys(db)),
                    !.left = Cardinality(KVStoreKeys(db)) + 1,
                    !.changed = FALSE]]
    /\ last' = Call(c, "iter", <<>>, None, NoExc)
    /\ UNCHANGED <<db, tx, created, current, pc, uuids, scopeRows>>

\* The loop asks its iterator for the next item.  An index whose size is not
\* the size the iterator kept raises RuntimeError (dictionary changed size
\* during iteration) and the commit fails with the index as it is.  With
\* the size as it was but a key put in or taken out since the loop began,
\* what the iterator finds depends on where the threads stood in the dict's
\* table: it raises (dictionary keys changed during iteration) or goes on.
\* Past its last item the loop ends: the operation goes on to its next
\* rewrite of the file or is done.
IterNext(c, raises) ==
    /\ inCall[c].at = "next"
    /\ LET differs == Cardinality(KVStoreKeys(db)) # inCall[c].size
       IN  IF raises
           THEN /\ differs \/ inCall[c].changed
                /\ CommitFails(c)
           ELSE /\ ~differs
                /\ inCall' = [inCall EXCEPT ![c] =
                      IF @.left > 1 THEN [@ EXCEPT !.left = @ - 1]
                      ELSE IF @.syncs > 1
                      THEN [@ EXCEPT !.at = "rename", !.syncs = @ - 1,
                                     !.size = 0, !.left = 0, !.changed = FALSE]
                      ELSE [@ EXCEPT !.k = @ + 1, !.at = "test", !.syncs = 0,
                                     !.size = 0, !.left = 0, !.changed = FALSE]]
                /\ last' = Call(c, "next", <<>>, None, NoExc)
                /\ UNCHANGED <<tx, current, pc>>
    /\ UNCHANGED <<db, created, uuids, scopeRows>>

\* transaction.get(key), up to the shelf's test for the key: a staged key
\* and a key the store does not have are answered at once.
GetTest(c, key) ==
    /\ created[c] > 0
    /\ IF InChanges(tx[c].changes, key) \/ InDeletions(tx[c].deletions, key)
          \/ key \notin KVStoreKeys(db)
       THEN /\ last' = Call(c, "get", key,
                            TransactionGet(tx[c], db, ShelfOpen, key).ret, NoExc)
            /\ UNCHANGED inCall
       ELSE /\ inCall' = [inCall EXCEPT ![c] =
                   [NoCall EXCEPT !.via = "get", !.at = "read", !.seen = TRUE,
                                  !.key = key]]
            /\ last' = Call(c, "test", key, None, NoExc)
    /\ UNCHANGED <<db, tx, created, current, pc, uuids, scopeRows>>

\* The shelf reads the key it has seen: its value, or KeyError when another
\* thread has deleted it since.
GetRead(c) ==
    /\ inCall[c].via = "get"
    /\ IF inCall[c].key \in KVStoreKeys(db)
       THEN last' = Call(c, "get", inCall[c].key, db[inCall[c].key], NoExc)
       ELSE last' = Call(c, "get", inCall[c].key, None, KeyError)
    /\ inCall' = [inCall EXCEPT ![c] = NoCall]
    /\ UNCHANGED <<db, tx, created, current, pc, uuids, scopeRows>>

\* Two contexts on one TransactionManager and one store, interleaved.
NextConc ==
    /\ \E c \in Contexts :
        \/ /\ ~InCall(c)
           /\ UNCHANGED inCall
           /\ \/ Enter(c, MaxScopes)
              \/ \E e \in ConcExceptions \cup {NoExc} :
                    (e # NoExc \/ Completed(tx[c])) /\ Exit(c, e)
              \/ \E key \in ConcKeys, value \in Values :
                    Set(c, key, value, MaxStaged)
              \/ \E key \in ConcKeys : Delete(c, key, MaxStaged)
              \/ Rollback(c)
        \/ /\ ~InCall(c)
           /\ \/ CommitBegin(c)
              \/ ExitBegin(c)
              \/ \E key \in ConcKeys : GetTest(c, key)
        \/ StoreTest(c)
        \/ IndexRead(c)
        \/ StoreWrite(c)
        \/ AddkeyOpen(c)
        \/ SyncRename(c)
        \/ SyncOpen(c)
        \/ Chmod(c)
        \/ IterBegin(c)
        \/ \E raises \in BOOLEAN : IterNext(c, raises)
        \/ GetRead(c)
    /\ UNCHANGED <<poolVars, tableVars>>

SpecConc == Init /\ [][NextConc]_vars

\* ------------------------------------------------------------------ pool actions

txVars == <<db, tx, created, current, pc, uuids, scopeRows, inCall>>

\* The Connection object id as a return value.
ConnRef(id) == <<"Connection", ToString(id)>>

\* get_connection, up to its test of the closed flag: a closed pool raises
\* at once, an open one goes on to wait on the ready queue.
GetConnection(h) ==
    /\ ppc[h] = "idle"
    /\ IF ClosedCheck(closed)
       THEN /\ last' = Call(h, "get_connection", <<>>, None, PoolClosedError)
            /\ UNCHANGED ppc
       ELSE /\ last' = Call(h, "get_connection", <<>>, None, NoExc)
            /\ ppc' = [ppc EXCEPT ![h] = "wait"]
    /\ UNCHANGED <<closed, ready, connections, objs, lock, held, cursor, txVars>>

\* self.pool.get(timeout=self.timeout): a ready connection is taken; on an
\* empty queue the wait ends with queue.Empty and the holder goes for the
\* lock.
PoolGet(h) ==
    /\ ppc[h] = "wait"
    /\ IF ready # <<>>
       THEN LET g == QueueGet(ready)
            IN  /\ ready' = g.rest
                /\ held' = [held EXCEPT ![h] = g.item]
                /\ ppc' = [ppc EXCEPT ![h] = "taken"]
                /\ last' = Call(h, "get", <<>>, ConnRef(g.item), NoExc)
       ELSE /\ ppc' = [ppc EXCEPT ![h] = "lock"]
            /\ last' = Call(h, "timeout", <<>>, None, NoExc)
            /\ UNCHANGED <<ready, held>>
    /\ UNCHANGED <<closed, connections, objs, lock, cursor, txVars>>

\* with self._lock: entered.
AcquireLock(h) ==
    /\ ppc[h] = "lock"
    /\ LockFree(lock)
    /\ lock' = h
    /\ ppc' = [ppc EXCEPT ![h] = "locked"]
    /\ last' = Call(h, "lock", <<>>, None, NoExc)
    /\ UNCHANGED <<closed, ready, connections, objs, held, cursor, txVars>>

\* Under the lock: below max_connections _create_connection constructs a
\* Connection (opened is whether shelve.open succeeds, faulty whether the
\* new connection's close will raise); at max_connections, and when the
\* store cannot be opened, ConnectionError leaves the with block and the
\* finally clause finds connection None.
Create(h, opened, faulty) ==
    /\ ppc[h] = "locked"
    /\ IF BelowMax(connections, MaxConnections)
       THEN IF opened
            THEN /\ objs' = Append(objs, NewConnection(faulty))
                 /\ held' = [held EXCEPT ![h] = Len(objs) + 1]
                 /\ ppc' = [ppc EXCEPT ![h] = "created"]
                 /\ last' = Call(h, "create", <<>>, ConnRef(Len(objs) + 1), NoExc)
                 /\ UNCHANGED lock
            ELSE /\ lock' = ""
                 /\ ppc' = [ppc EXCEPT ![h] = "idle"]
                 /\ last' = Call(h, "create", <<>>, None, CreateFailedError)
                 /\ UNCHANGED <<objs, held>>
       ELSE /\ lock' = ""
            /\ ppc' = [ppc EXCEPT ![h] = "idle"]
            /\ last' = Call(h, "create", <<>>, None, MaxReachedError)
            /\ UNCHANGED <<objs, held>>
    /\ UNCHANGED <<closed, ready, connections, cursor, txVars>>

\* self.connections.append(connection) and the end of the with block: the
\* lock is free again while the new connection is not yet marked in use.
AppendToRoster(h) ==
    /\ ppc[h] = "created"
    /\ connections' = Append(connections, held[h])
    /\ lock' = ""
    /\ ppc' = [ppc EXCEPT ![h] = "appended"]
    /\ last' = Call(h, "append", <<>>, ConnRef(held[h]), NoExc)
    /\ UNCHANGED <<closed, ready, objs, held, cursor, txVars>>

\* connection.in_use = True and the yield, for a connection taken off the
\* queue and for one just created.
Yield(h) ==
    /\ ppc[h] \in {"taken", "appended"}
    /\ objs' = [objs EXCEPT ![held[h]].in_use = TRUE]
    /\ ppc' = [ppc EXCEPT ![h] = "body"]
    /\ last' = Call(h, "yield",
                    <<IF ppc[h] = "taken" THEN "ready" ELSE "created">>,
                    ConnRef(held[h]), NoExc)
    /\ UNCHANGED <<closed, ready, connections, lock, held, cursor, txVars>>

\* The body of the scope ends, returning or raising bodyExc: the finally
\* clause marks the connection not in use.
EndBody(h, bodyExc) ==
    /\ ppc[h] = "body"
    /\ IF ReleaseAlways(bodyExc)
       THEN /\ objs' = [objs EXCEPT ![held[h]].in_use = FALSE]
            /\ ppc' = [ppc EXCEPT ![h] =
                          IF bodyExc = NoExc THEN "returned" ELSE "raised"]
            /\ last' = Call(h, "finally", <<bodyExc>>, ConnRef(held[h]), NoExc)
            /\ UNCHANGED held
       ELSE /\ held' = [held EXCEPT ![h] = 0]
            /\ ppc' = [ppc EXCEPT ![h] = "idle"]
            /\ last' = Call(h, "release", <<bodyExc>>, ConnRef(held[h]), bodyExc)
            /\ UNCHANGED objs
    /\ UNCHANGED <<closed, ready, connections, lock, cursor, txVars>>

\* self.pool.put(connection, timeout=self.timeout), the end of the finally
\* clause: the scope is left, with the exception of the body if it raised
\* bodyExc.
Release(h, bodyExc) ==
    /\ ppc[h] = (IF bodyExc = NoExc THEN "returned" ELSE "raised")
    /\ ready' = QueuePut(ready, held[h], QueueMaxsize(MaxConnections))
    /\ held' = [held EXCEPT ![h] = 0]
    /\ ppc' = [ppc EXCEPT ![h] = "idle"]
    /\ last' = Call(h, "release", <<bodyExc>>, ConnRef(held[h]), bodyExc)
    /\ UNCHANGED <<closed, connections, objs, lock, cursor, txVars>>

\* close(), up to its test `if self.closed: return`: a closed pool returns
\* at once.
Close(h) ==
    /\ ppc[h] = "idle"
    /\ IF closed
       THEN /\ last' = Call(h, "close", <<"closed">>, None, NoExc)
            /\ UNCHANGED ppc
       ELSE /\ ppc' = [ppc EXCEPT ![h] = "closing"]
            /\ last' = Call(h, "closing", <<>>, None, NoExc)
    /\ UNCHANGED <<closed, ready, connections, objs, lock, held, cursor, txVars>>

\* self.closed = True
MarkClosed(h) ==
    /\ ppc[h] = "closing"
    /\ closed' = TRUE
    /\ ppc' = [ppc EXCEPT ![h] = "drain"]
    /\ last' = Call(h, "mark_closed", <<>>, None, NoExc)
    /\ UNCHANGED <<ready, connections, objs, lock, held, cursor, txVars>>

\* while not self.pool.empty(): one connection taken off the queue and
\* closed, a failure logged; on the empty queue the roster loop starts.
Drain(h) ==
    /\ ppc[h] = "drain"
    /\ IF ready # <<>>
       THEN LET g == QueueGet(ready)
            IN  /\ ready' = g.rest
                /\ objs' = ConnectionClose(objs, g.item)
                /\ last' = Call(h, "drain", <<>>, ConnRef(g.item), NoExc)
                /\ UNCHANGED <<ppc, cursor>>
       ELSE /\ ppc' = [ppc EXCEPT ![h] = "sweep"]
            /\ cursor' = [cursor EXCEPT ![h] = 1]
            /\ last' = Call(h, "drained", <<>>, None, NoExc)
            /\ UNCHANGED <<ready, objs>>
    /\ UNCHANGED <<closed, connections, lock, held, txVars>>

\* for connection in self.connections: the next connection of the roster is
\* closed, a failure logged; past the end of the roster close() returns.
Sweep(h) ==
    /\ ppc[h] = "sweep"
    /\ IF cursor[h] <= Len(connections)
       THEN LET id == connections[cursor[h]]
            IN  /\ objs' = ConnectionClose(objs, id)
                /\ cursor' = [cursor EXCEPT ![h] =
                       NextInRoster(@, CloseRaises(objs, id), Len(connections))]
                /\ last' = Call(h, "sweep", <<>>, ConnRef(id), NoExc)
                /\ UNCHANGED ppc
       ELSE /\ ppc' = [ppc EXCEPT ![h] = "idle"]
            /\ cursor' = [cursor EXCEPT ![h] = 0]
            /\ last' = Call(h, "close", <<"open">>, None, NoExc)
            /\ UNCHANGED objs
    /\ UNCHANGED <<closed, ready, connections, lock, held, txVars>>

\* Three holders on one ConnectionPool of MaxConnections, interleaved.
NextPool ==
    /\ UNCHANGED tableVars
    /\ \E h \in Holders :
        \/ GetConnection(h)
        \/ PoolGet(h)
        \/ AcquireLock(h)
        \/ \E opened \in BOOLEAN, faulty \in BOOLEAN : Create(h, opened, faulty)
        \/ AppendToRoster(h)
        \/ Yield(h)
        \/ \E e \in {ValueError, NoExc} : EndBody(h, e)
        \/ \E e \in {ValueError, NoExc} : Release(h, e)
        \/ Close(h)
        \/ MarkClosed(h)
        \/ Drain(h)
        \/ Sweep(h)

SpecPool == Init /\ [][NextPool]_vars

\* ------------------------------------------------------------------ table actions

\* What the table actions leave alone.
otherVars == <<tx, created, current, pc, scopeRows, poolVars, schema, tables,
               inCall>>

\* The ids Table.insert can return.
RowIds == {Uuid4(n) : n \in 1..MaxTableRows}

\* Table.create_index(FieldName): IndexManager.create_index loads the index
\* once and returns the one it has after that.
TableCreateIndex ==
    /\ indexes' =
          IF HasIndex(indexes, TableName, FieldName) THEN indexes
          ELSE [n \in DOMAIN indexes \cup {IndexName(TableName, FieldName)} |->
                   IF n \in DOMAIN indexes THEN indexes[n]
                   ELSE IndexLoad(db, TableName, FieldName)]
    /\ last' = Call("t1", "create_index", <<>>, None, NoExc)
    /\ UNCHANGED <<db, uuids, otherVars>>

\* IndexManager.drop_index(table, field): the index's blob leaves the store
\* and the Index leaves the manager; nothing without the index.
IndexManagerDropIndex(ixs, d, table, field) ==
    IF HasIndex(ixs, table, field)
    THEN [indexes |-> [n \in DOMAIN ixs \ {IndexName(table, field)} |-> ixs[n]],
          db |-> KVStoreDelete(d, IndexKey(table, field))]
    ELSE [indexes |-> ixs, db |-> d]

\* table.index_manager.drop_index(TableName, FieldName)
TableDropIndex ==
    /\ indexes' = IndexManagerDropIndex(indexes, db, TableName, FieldName).indexes
    /\ db' = IndexManagerDropIndex(indexes, db, TableName, FieldName).db
    /\ last' = Call("t1", "drop_index", <<>>, None, NoExc)
    /\ UNCHANGED <<uuids, otherVars>>

\* Table.insert(Row(**cols)): validation, then the row under a new uuid,
\* then the indexes; at most maxRows rows.
TableInsert(cols, maxRows) ==
    LET v == ValidateRow(schema, cols)
    IN  IF Raises(v)
        THEN /\ last' = Call("t1", "insert", cols, None, v.exc)
             /\ UNCHANGED <<db, uuids, indexes, otherVars>>
        ELSE /\ uuids < maxRows
             /\ LET key == Uuid4(uuids + 1)
                    stored == KVStoreSet(db, RowKey(TableName, key),
                                         JsonDumps(JsonEncode(v.data))).db
                    r == AddEntries(indexes, stored, TableName, key, v.data,
                                    DOMAIN v.data)
                IN  /\ db' = r.db
                    /\ indexes' = r.indexes
                    /\ last' = Call("t1", "insert", cols, <<key>>, NoExc)
             /\ uuids' = uuids + 1
             /\ UNCHANGED otherVars

\* Table.update(id, **updates): False for an absent row; else validation
\* of the merged columns, then the indexes, then the row.
TableUpdate(id, updates) ==
    LET row == TableQuery(db, TableName, id)
    IN  IF Falsy(row)
        THEN /\ last' = Call("t1", "update", <<id, updates>>, PyFalse, NoExc)
             /\ UNCHANGED <<db, uuids, indexes, otherVars>>
        ELSE LET columns == row[2]
                 new_data == [f \in DOMAIN columns \cup DOMAIN updates |->
                                 IF f \in DOMAIN updates THEN updates[f]
                                 ELSE columns[f]]
                 v == ValidateRow(schema, new_data)
             IN  IF Raises(v)
                 THEN /\ last' = Call("t1", "update", <<id, updates>>, None, v.exc)
                      /\ UNCHANGED <<db, uuids, indexes, otherVars>>
                 ELSE LET r == UpdateEntries(indexes, db, TableName, id, columns,
                                             updates, DOMAIN updates)
                      IN  /\ indexes' = r.indexes
                          /\ db' = KVStoreSet(r.db, RowKey(TableName, id),
                                              JsonDumps(JsonEncode(v.data))).db
                          /\ last' = Call("t1", "update", <<id, updates>>,
                                          PyTrue, NoExc)
                          /\ UNCHANGED <<uuids, otherVars>>

\* Table.delete(id): False for an absent row; else the index entries of
\* the stored columns, then the row.
TableDelete(id) ==
    LET row == TableQuery(db, TableName, id)
    IN  IF Falsy(row)
        THEN /\ last' = Call("t1", "delete", <<id>>, PyFalse, NoExc)
             /\ UNCHANGED <<db, uuids, indexes, otherVars>>
        ELSE LET r == RemoveEntries(indexes, db, TableName, id, row[2],
                                    DOMAIN row[2])
             IN  /\ indexes' = r.indexes
                 /\ db' = RowDeleted(r.db, TableName, id)
                 /\ last' = Call("t1", "delete", <<id>>, PyTrue, NoExc)
                 /\ UNCHANGED <<uuids, otherVars>>

\* Table.query(id)
Query(id) ==
    /\ last' = Call("t1", "query", <<id>>, TableQuery(db, TableName, id), NoExc)
    /\ UNCHANGED <<db, uuids, indexes, otherVars>>

\* Table.query_by_field(FieldName, value)
QueryByField(value) ==
    /\ last' = Call("t1", "query_by_field", <<value>>,
                    TableQueryByField(indexes, db, TableName, FieldName, value),
                    NoExc)
    /\ UNCHANGED <<db, uuids, indexes, otherVars>>

\* A table, with a schema or without, and every operation on it.
InitTable ==
    /\ PoolInit
    /\ TxInit
    /\ \E sch \in Schemas : TableInit(sch)

NextTable ==
    \/ TableCreateIndex
    \/ TableDropIndex
    \/ \E cols \in RowInputs : TableInsert(cols, MaxTableRows)
    \/ \E id \in RowIds, value \in UpdateValues : TableUpdate(id, Columns(value))
    \/ \E id \in RowIds : TableDelete(id)
    \/ \E id \in RowIds : Query(id)
    \/ \E value \in QueryValues : QueryByField(value)

SpecTable == InitTable /\ [][NextTable]_vars

\* create_index on the new table, then inserts and queries only.
NextIndexed ==
    \/ TableCreateIndex
    \/ /\ HasIndex(indexes, TableName, FieldName)
       /\ \E cols \in RowInputs : TableInsert(cols, MaxTableRows)
    \/ \E value \in QueryValues : QueryByField(value)

SpecIndexed == InitTable /\ [][NextIndexed]_vars

\* create_index on the new table, then inserts, updates and deletes.
NextIndexFirst ==
    \/ TableCreateIndex
    \/ /\ HasIndex(indexes, TableName, FieldName)
       /\ \E cols \in RowInputs : TableInsert(cols, MaxTableRows)
    \/ \E id \in RowIds, value \in UpdateValues : TableUpdate(id, Columns(value))
    \/ \E id \in RowIds : TableDelete(id)

SpecIndexFirst == InitTable /\ [][NextIndexFirst]_vars

\* ------------------------------------------------------------------ minidb.py

\* What the MiniDB actions leave alone.
dbOther == <<tx, created, current, pc, scopeRows, closed, lock, ppc, held,
             cursor, schema, inCall>>

\* MiniDB.create_table(name): the Table it has under the name, or a new
\* Table, with its own IndexManager, on the store of a pooled connection
\* (ConnectionError from a closed pool: no Table).
CreateTable(name, opened) ==
    IF name \in tables
    THEN /\ last' = Call("t1", "create_table", <<name>>, <<"Table", name>>, NoExc)
         /\ UNCHANGED <<db, uuids, indexes, tables, ready, connections, objs,
                        dbOther>>
    ELSE IF ClosedCheck(closed)
    THEN /\ last' = Call("t1", "create_table", <<name>>, None, PoolClosedError)
         /\ UNCHANGED <<db, uuids, indexes, tables, ready, connections, objs,
                        dbOther>>
    ELSE LET l == Lease(ready, connections, objs, opened)
         IN  /\ ready' = l.ready
             /\ connections' = l.connections
             /\ objs' = l.objs
             /\ IF l.exc = NoExc
                THEN /\ tables' = tables \cup {name}
                     /\ last' = Call("t1", "create_table", <<name>>,
                                     <<"Table", name>>, NoExc)
                ELSE /\ last' = Call("t1", "create_table", <<name>>, None, l.exc)
                     /\ UNCHANGED tables
             /\ UNCHANGED <<db, uuids, indexes, dbOther>>

\* MiniDB.drop_table(name): TableNotFoundError without the table; else the
\* loop over its rows (list_rows raises on a closed shelf and the table
\* stays), then the Table leaves MiniDB.tables and its IndexManager goes
\* with it.
DropTable(name) ==
    IF name \notin tables
    THEN /\ last' = Call("t1", "drop_table", <<name>>, None, TableNotFoundError)
         /\ UNCHANGED <<db, uuids, indexes, tables, ready, connections, objs,
                        dbOther>>
    ELSE IF ~ShelfOpen
    THEN /\ last' = Call("t1", "drop_table", <<name>>, None, ValueError)
         /\ UNCHANGED <<db, uuids, indexes, tables, ready, connections, objs,
                        dbOther>>
    ELSE LET r == DropRows(indexes, db, name, ListRows(db, name))
         IN  /\ db' = r.db
             /\ indexes' = [n \in {m \in DOMAIN r.indexes : m[1] # name} |->
                               r.indexes[n]]
             /\ tables' = tables \ {name}
             /\ last' = Call("t1", "drop_table", <<name>>, None, NoExc)
             /\ UNCHANGED <<uuids, ready, connections, objs, dbOther>>

\* MiniDB.list_tables()
ListTables ==
    /\ last' = Call("t1", "list_tables", <<>>, tables, NoExc)
    /\ UNCHANGED <<db, uuids, indexes, tables, ready, connections, objs, dbOther>>

\* MiniDB.create_index(name, FieldName): an index the table has is left as
\* it is; a new Index loads its blob from the store, which raises on a
\* closed shelf before the index is registered.
DbCreateIndex(name) ==
    /\ IF name \notin tables
       THEN /\ last' = Call("t1", "create_index", <<name>>, None, TableNotFoundError)
            /\ UNCHANGED indexes
       ELSE IF ~ShelfOpen /\ ~HasIndex(indexes, name, FieldName)
       THEN /\ last' = Call("t1", "create_index", <<name>>, None, ValueError)
            /\ UNCHANGED indexes
       ELSE /\ indexes' =
                  IF HasIndex(indexes, name, FieldName) THEN indexes
                  ELSE [n \in DOMAIN indexes \cup {IndexName(name, FieldName)} |->
                           IF n \in DOMAIN indexes THEN indexes[n]
                           ELSE IndexLoad(db, name, FieldName)]
            /\ last' = Call("t1", "create_index", <<name>>, None, NoExc)
    /\ UNCHANGED <<db, uuids, tables, ready, connections, objs, dbOther>>

\* MiniDB.get_table(name).insert(Row(**cols)); at most maxRows uuids drawn.
\* On a closed shelf the uuid is drawn and the write of the row raises,
\* before any index is touched.
DbInsert(name, cols, maxRows) ==
    IF name \notin tables
    THEN /\ last' = Call("t1", "insert", <<name, cols>>, None, TableNotFoundError)
         /\ UNCHANGED <<db, uuids, indexes, tables, ready, connections, objs,
                        dbOther>>
    ELSE IF ~ShelfOpen
    THEN /\ uuids < maxRows
         /\ uuids' = uuids + 1
         /\ last' = Call("t1", "insert", <<name, cols>>, None, ValueError)
         /\ UNCHANGED <<db, indexes, tables, ready, connections, objs, dbOther>>
    ELSE /\ uuids < maxRows
         /\ LET r == InsertRow(indexes, db, name, Uuid4(uuids + 1), cols)
            IN  /\ db' = r.db
                /\ indexes' = r.indexes
         /\ uuids' = uuids + 1
         /\ last' = Call("t1", "insert", <<name, cols>>, <<Uuid4(uuids + 1)>>, NoExc)
         /\ UNCHANGED <<tables, ready, connections, objs, dbOther>>

\* MiniDB.get_table(name).delete(id): the row is read first, which raises
\* on a closed shelf.
DbDelete(name, id) ==
    IF name \notin tables
    THEN /\ last' = Call("t1", "delete", <<name, id>>, None, TableNotFoundError)
         /\ UNCHANGED <<db, uuids, indexes, tables, ready, connections, objs,
                        dbOther>>
    ELSE IF ~ShelfOpen
    THEN /\ last' = Call("t1", "delete", <<name, id>>, None, ValueError)
         /\ UNCHANGED <<db, uuids, indexes, tables, ready, connections, objs,
                        dbOther>>
    ELSE LET r == DeleteRow(indexes, db, name, id)
         IN  /\ db' = r.db
             /\ indexes' = r.indexes
             /\ last' = Call("t1", "delete", <<name, id>>, r.ret, NoExc)
             /\ UNCHANGED <<uuids, tables, ready, connections, objs, dbOther>>

\* MiniDB.get_table(name).list_rows(): kv_store.keys() raises on a closed
\* shelf.
DbListRows(name) ==
    /\ IF name \notin tables
       THEN last' = Call("t1", "list_rows", <<name>>, None, TableNotFoundError)
       ELSE IF ~ShelfOpen
       THEN last' = Call("t1", "list_rows", <<name>>, None, ValueError)
       ELSE last' = Call("t1", "list_rows", <<name>>, ListRows(db, name), NoExc)
    /\ UNCHANGED <<db, uuids, indexes, tables, ready, connections, objs, dbOther>>

\* MiniDB.get_table(name).index_manager.drop_index(name, FieldName): the
\* blob of an index the table has is deleted first, which raises on a closed
\* shelf with the index still registered; without the index nothing is done.
DbDropIndex(name) ==
    /\ IF name \notin tables
       THEN /\ last' = Call("t1", "drop_index", <<name>>, None, TableNotFoundError)
            /\ UNCHANGED <<db, indexes>>
       ELSE IF ~ShelfOpen /\ HasIndex(indexes, name, FieldName)
       THEN /\ last' = Call("t1", "drop_index", <<name>>, None, ValueError)
            /\ UNCHANGED <<db, indexes>>
       ELSE /\ indexes' = IndexManagerDropIndex(indexes, db, name, FieldName).indexes
            /\ db' = IndexManagerDropIndex(indexes, db, name, FieldName).db
            /\ last' = Call("t1", "drop_index", <<name>>, None, NoExc)
    /\ UNCHANGED <<uuids, tables, ready, connections, objs, dbOther>>

\* One MiniDB, its tables made without schema, every operation on them, and
\* the close of the database.
NextDb ==
    \/ \E name \in TableNames, opened \in BOOLEAN : CreateTable(name, opened)
    \/ DbClose("t1") /\ UNCHANGED <<tableVars, inCall>>
    \/ \E name \in TableNames : DropTable(name)
    \/ ListTables
    \/ \E name \in TableNames : DbCreateIndex(name)
    \/ \E name \in TableNames : DbDropIndex(name)
    \/ \E name \in TableNames, cols \in DbRowInputs :
           DbInsert(name, cols, MaxTableRows)
    \/ \E name \in TableNames, id \in RowIds : DbDelete(name, id)
    \/ \E name \in TableNames : DbListRows(name)

SpecDb == Init /\ [][NextDb]_vars

\* ------------------------------------------------------------------ claims

\* Every staged set of t whose key is not also a staged deletion is in the
\* store d with its value, and every key of a staged deletion is absent.
StagedApplied(t, d) ==
    /\ \A i \in 1..Len(t.changes) :
          \/ \E j \in 1..Len(t.deletions) : t.deletions[j] = t.changes[i][1]
          \/ /\ t.changes[i][1] \in DOMAIN d
             /\ d[t.changes[i][1]] = t.changes[i][2]
    /\ \A j \in 1..Len(t.deletions) : t.deletions[j] \notin DOMAIN d

\* The step just taken was the call op of context c.
Did(c, op) == last'.ctx = c /\ last'.op = op

\* C1: a set or delete staged while the scope is open leaves the store as it
\* was; a scope whose body returns either ends normally with every staged set
\* and delete applied, or raises with none of them in the store; a scope
\* whose body raises leaves the store without the staged operations.
C1_StagedRoundTrip ==
    [][\A c \in Contexts :
         /\ (Did(c, "set") \/ Did(c, "delete")) /\ pc[c] = "body" => db' = db
         /\ Did(c, "exit") /\ last'.arg = <<NoExc>> /\ ~Completed(tx[c]) =>
               \/ last'.exc = NoExc /\ StagedApplied(tx[c], db')
               \/ last'.exc # NoExc /\ db' = db
         /\ Did(c, "exit") /\ last'.arg # <<NoExc>> => db' = db
      ]_vars

\* C2: when the body of a scope raises after Table.insert calls, list_rows
\* afterwards returns the rows of before the scope (none of the rows the body
\* inserted); when it returns, the rows it inserted are all stored.
C2_InsertsRolledBack ==
    last.op = "exit" =>
        LET mine == scopeRows[last.ctx]
            before == [k \in DOMAIN db \ mine |-> db[k]]
        IN  IF last.arg = <<NoExc>>
            THEN mine \subseteq KVStoreKeys(db)
            ELSE ListRows(db, TableName) = ListRows(before, TableName)

\* The store d with every staged set and delete of t in effect.
AllInEffect(t, d) ==
    LET set == {t.changes[i][1] : i \in 1..Len(t.changes)}
        del == {t.deletions[j] : j \in 1..Len(t.deletions)}
    IN  [k \in (DOMAIN d \cup set) \ del |->
            IF k \in set
            THEN t.changes[CHOOSE i \in 1..Len(t.changes) : t.changes[i][1] = k][2]
            ELSE d[k]]

\* C3: a commit attempt, made by the body or by the scope's exit, leaves the
\* store with every staged set and delete in effect or with none.
C3_CommitAllOrNothing ==
    [][\A c \in Contexts :
         Did(c, "commit") \/ (Did(c, "exit") /\ last'.arg = <<NoExc>>) =>
             db' = AllInEffect(tx[c], db) \/ db' = db
      ]_vars

\* C4: a Transaction never has both flags set; a flag once set stays set and
\* the other stays clear; set, delete and commit on a completed Transaction,
\* and rollback on a committed one, raise TransactionError and change neither
\* the Transaction nor the store.
C4_TerminalAbsorbing ==
    [][\A c \in Contexts :
         /\ ~(tx'[c].committed /\ tx'[c].rolled_back)
         /\ created'[c] = created[c] /\ tx[c].committed =>
               tx'[c].committed /\ ~tx'[c].rolled_back
         /\ created'[c] = created[c] /\ tx[c].rolled_back =>
               tx'[c].rolled_back /\ ~tx'[c].committed
         /\ \/ (Did(c, "set") \/ Did(c, "delete") \/ Did(c, "commit")) /\ Completed(tx[c])
            \/ Did(c, "rollback") /\ tx[c].committed
            => last'.exc = TransactionError /\ tx'[c] = tx[c] /\ db' = db
      ]_vars

\* A set was refused on a committed Transaction that still holds what it staged.
C4_Witness ==
    /\ last.op = "set" /\ last.exc = TransactionError
    /\ tx[last.ctx].committed /\ tx[last.ctx].changes # <<>>

\* C5: get returns the staged value of a key in changes, else None for a key
\* in deletions, else what the store answers for the key now: the stored
\* value, or the store's sentinel for a key it does not have, or the store's
\* exception (ValueError from a closed shelf; KeyError for a key that the
\* shelf found and another thread deleted before the shelf read it).  It
\* changes neither a Transaction nor the store.
C5_ReadYourWrites ==
    [][last'.op = "get" =>
         LET t == tx[last'.ctx]
             k == last'.arg
         IN  /\ tx' = tx /\ db' = db
             /\ \/ /\ \E i \in 1..Len(t.changes) :
                         t.changes[i][1] = k /\ last'.ret = t.changes[i][2]
                   /\ last'.exc = NoExc
                \/ /\ \A i \in 1..Len(t.changes) : t.changes[i][1] # k
                   /\ \E j \in 1..Len(t.deletions) : t.deletions[j] = k
                   /\ last'.ret = None /\ last'.exc = NoExc
                \/ /\ \A i \in 1..Len(t.changes) : t.changes[i][1] # k
                   /\ \A j \in 1..Len(t.deletions) : t.deletions[j] # k
                   /\ IF ~ShelfOpen THEN last'.exc = ValueError
                      ELSE IF k \in DOMAIN db
                      THEN last'.ret = db[k] /\ last'.exc = NoExc
                      ELSE \/ last'.ret = KeyNotFound(k) /\ last'.exc = NoExc
                           \/ last'.exc = KeyError /\ inCall[last'.ctx].seen
      ]_vars

\* An open transaction with staged operations read a row that Table.insert
\* wrote to the store after the scope was entered.
C5_Witness ==
    /\ last.op = "get" /\ last.arg \in scopeRows[last.ctx]
    /\ last.ret = JsonDumps(RowData) /\ last.exc = NoExc
    /\ pc[last.ctx] = "body" /\ ~Completed(tx[last.ctx])
    /\ tx[last.ctx].changes # <<>> /\ tx[last.ctx].deletions # <<>>

\* C6: for a key in both changes and deletions of an active Transaction, get
\* returns None; after a successful commit such a key is absent from the store.
C6_BothResolvesToDeletion ==
    LET t == tx[last.ctx]
    IN  /\ last.op = "get" /\ ~Completed(t)
           /\ InChanges(t.changes, last.arg) /\ InDeletions(t.deletions, last.arg)
           => last.ret = None
        /\ last.op \in {"commit", "exit"} /\ last.exc = NoExc /\ t.committed =>
              \A k \in Keys :
                  InChanges(t.changes, k) /\ InDeletions(t.deletions, k)
                  => k \notin DOMAIN db

\* C7: entering a scope while the context has a current transaction raises
\* TransactionError and changes nothing: no Transaction is created, the outer
\* one stays current with its buffers and flags.  A Transaction is created
\* only while the context has none, and the current one is the latest created.
C7_NestedEnterFails ==
    [][\A c \in Contexts :
         /\ Did(c, "enter") /\ current[c] # 0 =>
               /\ last'.exc = TransactionError
               /\ created' = created /\ tx' = tx /\ current' = current /\ pc' = pc
         /\ created'[c] # created[c] => current[c] = 0
         /\ current'[c] \in {0, created'[c]}
      ]_vars

\* A nested enter was refused while the outer transaction held staged operations.
C7_Witness ==
    /\ last.op = "enter" /\ last.exc = TransactionError
    /\ current[last.ctx] = created[last.ctx]
    /\ tx[last.ctx].changes # <<>> /\ tx[last.ctx].deletions # <<>>

\* C8: a scope whose body raises an exception (a subclass of Exception) exits
\* raising that exception, with the Transaction committed or rolled back.
C8_ReRaisesBodyException ==
    last.op = "exit" /\ last.arg = <<ValueError>> =>
        last.exc = ValueError /\ Completed(tx[last.ctx])

\* C9: outside a scope the context has no current transaction, whatever way
\* the scope was left; an enter is refused only inside a scope's body.
C9_ClearedOnExit ==
    /\ \A c \in Contexts : pc[c] = "idle" => current[c] = 0
    /\ last.op = "exit" => current[last.ctx] = 0
    /\ last.op = "enter" /\ last.exc = TransactionError => pc[last.ctx] = "body"

\* The context's second scope, entered after its first was left, was itself
\* left by a failed auto-commit, and the context has no current transaction.
C9_Witness ==
    /\ last.op = "exit" /\ last.arg = <<NoExc>> /\ last.exc = TransactionError
    /\ created[last.ctx] = 2 /\ current[last.ctx] = 0

\* The part of C10 on the manager alone, as a step: it writes the
\* Transaction, the current transaction, the count and the position of no
\* context but the one that took it, and an enter is refused only for the
\* entering context's own current transaction, which is the one it created.
ManagerStateIsPerContext ==
    \A c \in Contexts :
        /\ last'.ctx # c =>
              /\ tx'[c] = tx[c] /\ current'[c] = current[c]
              /\ created'[c] = created[c] /\ pc'[c] = pc[c]
        /\ Did(c, "enter") /\ last'.exc = TransactionError => current[c] # 0
        /\ current'[c] \in {0, created'[c]}
        /\ current'[c] # 0 <=> pc'[c] = "body"

Leased == {h \in Holders : ppc[h] = "body"}

\* C11: two leases open at the same moment are on distinct Connection
\* objects, and a connection on lease is not in the ready queue.
C11_LeasesDistinct ==
    /\ \A h1, h2 \in Leased : h1 # h2 => held[h1] # held[h2]
    /\ \A h \in Leased : \A i \in 1..Len(ready) : ready[i] # held[h]

\* Two leases are open, the later of them on a connection that came off the
\* ready queue after an earlier lease had put it there.
C11_Witness ==
    /\ Cardinality(Leased) = 2
    /\ last.op = "yield" /\ last.arg = <<"ready">>

\* C12: the roster and the number of open leases are at most
\* max_connections in every state.
C12_AtMostMax ==
    /\ Len(connections) <= MaxConnections
    /\ Len(objs) <= MaxConnections
    /\ Cardinality(Leased) <= MaxConnections

\* Two holders have timed out on the empty queue at the same time with one
\* place left on the roster: one has constructed its connection under the
\* lock, the other waits for the lock.
C12_Witness ==
    \E h1, h2 \in Holders :
        /\ ppc[h1] = "created" /\ ppc[h2] = "lock"
        /\ Len(connections) = MaxConnections - 1

\* C13: the closed flag is never reset, and a get_connection on a closed
\* pool raises ConnectionError, yields nothing and creates nothing.
C13_ClosedForever ==
    [][/\ closed => closed'
       /\ \A h \in Holders :
             closed /\ ppc[h] = "idle" /\ Did(h, "get_connection") =>
                 /\ last'.exc = PoolClosedError
                 /\ ppc'[h] = "idle" /\ held'[h] = 0
                 /\ objs' = objs /\ connections' = connections /\ ready' = ready
      ]_vars

\* A get_connection on the closed pool has raised.
C13_Witness ==
    closed /\ last.op = "get_connection" /\ last.exc = PoolClosedError

\* C14: when close() returns from its roster loop, Connection.close has
\* been called on every connection of the roster, those after a connection
\* whose close failed included; close() on a closed pool changes nothing.
C14_CloseReachesAll ==
    [][\A h \in Holders :
         /\ ppc[h] = "sweep" /\ Did(h, "close") =>
                \A i \in 1..Len(connections') : objs'[connections'[i]].closes >= 1
         /\ closed /\ ppc[h] = "idle" /\ last'.ctx = h
               /\ last'.op \in {"close", "closing"} => poolVars' = poolVars
      ]_vars

\* close() has returned with one connection still on lease; the first
\* connection of the roster failed to close and the second was closed after
\* it.
C14_Witness ==
    /\ last.op = "close" /\ last.arg = <<"open">>
    /\ Leased # {}
    /\ Len(connections) = 2
    /\ objs[connections[1]].faulty /\ objs[connections[1]].closes >= 1
    /\ ~objs[connections[2]].open

\* C15: a Connection is constructed only by a holder whose wait on the
\* empty queue timed out and only while fewer than max_connections exist;
\* a timeout at max_connections raises ConnectionError('Maximum connections
\* reached'), yields nothing and leaves the roster, the queue and every
\* connection as they were.
C15_CreateOnlyBelowMax ==
    [][/\ Len(objs') > Len(objs) =>
             \E h \in Holders :
                 /\ ppc[h] = "locked" /\ last'.ctx = h
                 /\ Len(objs) < MaxConnections
       /\ \A h \in Holders :
             /\ ppc[h] # "locked" /\ ppc'[h] = "locked" => ppc[h] = "lock"
             /\ ppc[h] # "lock" /\ ppc'[h] = "lock" =>
                    ppc[h] = "wait" /\ ready = <<>>
             /\ ppc[h] = "locked" /\ last'.ctx = h
                   /\ Len(connections) >= MaxConnections =>
                    /\ last'.exc = MaxReachedError
                    /\ ppc'[h] = "idle" /\ held'[h] = 0
                    /\ objs' = objs /\ connections' = connections
                    /\ ready' = ready
      ]_vars

\* A holder timed out with max_connections connections on the roster and
\* got 'Maximum connections reached'.
C15_Witness ==
    last.op = "create" /\ last.exc = MaxReachedError
        /\ Len(connections) = MaxConnections

\* How many times the connection id is in the queue q.
TimesIn(q, id) == Cardinality({i \in 1..Len(q) : q[i] = id})

\* C16: the end of a scope, by return or by exception, leaves its
\* connection not in use and once in the ready queue; while the pool is
\* open every connection of the roster is in the hands of a holder or in the
\* ready queue.
C16_LeaseReturned ==
    [][/\ \A h \in Holders :
             Did(h, "release") =>
                 /\ ~objs'[held[h]].in_use
                 /\ TimesIn(ready', held[h]) = 1
                 /\ ppc'[h] = "idle"
       /\ ~closed' =>
             \A i \in 1..Len(connections') :
                 \/ TimesIn(ready', connections'[i]) = 1
                 \/ \E h \in Holders : held'[h] = connections'[i]
      ]_vars

\* A scope whose body raised has put its connection back on the queue.
C16_Witness ==
    /\ last.op = "release" /\ last.exc = ValueError
    /\ \E i \in 1..Len(ready) :
          ConnRef(ready[i]) = last.ret /\ ~objs[ready[i]].in_use

\* ------------------------------------------------------------------ claims on the table

\* C17: a delete of a stored row returns True and leaves query(id) without
\* a row, and only an insert that returns the id brings a row back under
\* it; a delete of an absent id returns False and leaves the store and the
\* in-memory indexes as they were.
C17_DeleteThenAbsent ==
    [][\A id \in RowIds :
         /\ Did("t1", "delete") /\ last'.arg = <<id>> =>
               IF Falsy(TableQuery(db, TableName, id))
               THEN last'.ret = PyFalse /\ db' = db /\ indexes' = indexes
               ELSE last'.ret = PyTrue /\ Falsy(TableQuery(db', TableName, id))
         /\ Falsy(TableQuery(db, TableName, id))
               /\ ~Falsy(TableQuery(db', TableName, id)) =>
               last'.op = "insert" /\ last'.ret = <<id>>
      ]_vars

\* A delete on a table with an index returned True and the row is gone,
\* while another row is still stored.
C17_Witness ==
    /\ last.op = "delete" /\ last.ret = PyTrue
    /\ HasIndex(indexes, TableName, FieldName)
    /\ Falsy(TableQuery(db, TableName, last.arg[1]))
    /\ \E id \in RowIds : ~Falsy(TableQuery(db, TableName, id))

\* The stored rows that have the indexed column.
WithField == {c \in BagToSet(ListRows(db, TableName)) : FieldName \in DOMAIN c}

\* No two stored rows have equal values in the indexed column.
DistinctValues ==
    /\ \A c \in WithField : ListRows(db, TableName)[c] = 1
    /\ \A c1, c2 \in WithField :
          c1 # c2 => ~PyEq(c1[FieldName], c2[FieldName])

\* C18: on a table whose index was created before its rows were inserted
\* with distinct values, query_by_field(field, v) returns exactly the rows
\* whose column equals v, and the results for the values of the stored rows
\* together are the rows that have the column.
C18_IndexExact ==
    HasIndex(indexes, TableName, FieldName) /\ DistinctValues =>
        /\ \A v \in RawValues :
              TableQueryByField(indexes, db, TableName, FieldName, v)
                  = RowsWhere(ListRows(db, TableName),
                              {c \in WithField : PyEq(c[FieldName], v)})
        /\ UNION {BagToSet(TableQueryByField(indexes, db, TableName, FieldName,
                                             c[FieldName])) : c \in WithField}
              = {Row(c) : c \in WithField}

\* C19: after a delete that returned True no bucket of any index holds the
\* row's id.
C19_DeleteClearsIndex ==
    [][\A id \in RowIds :
         Did("t1", "delete") /\ last'.arg = <<id>> /\ last'.ret = PyTrue =>
             \A n \in DOMAIN indexes' :
                 \A b \in DOMAIN indexes'[n] : id \notin indexes'[n][b]
      ]_vars

\* The columns Table.update validates: the stored columns with the updates.
Merged(id, updates) ==
    LET columns == TableQuery(db, TableName, id)[2]
    IN  [f \in DOMAIN columns \cup DOMAIN updates |->
            IF f \in DOMAIN updates THEN updates[f] ELSE columns[f]]

\* The part of C20 on the effect, as a step: an insert or update that
\* raises, whatever the exception, leaves the store (rows and index blobs),
\* the in-memory indexes and the uuids drawn as they were.
RaisingLeavesNoEffect ==
    (Did("t1", "insert") \/ Did("t1", "update")) /\ last'.exc # NoExc =>
        db' = db /\ indexes' = indexes /\ uuids' = uuids

\* C20: an insert, or an update of a stored row, whose row does not pass
\* the schema's validation raises SchemaValidationError, and an insert or
\* update that raises has no effect.
C20_InvalidNoEffect ==
    [][/\ Did("t1", "insert") /\ Raises(ValidateRow(schema, last'.arg)) =>
             last'.exc = SchemaValidationError
       /\ Did("t1", "update")
             /\ ~Falsy(TableQuery(db, TableName, last'.arg[1]))
             /\ Raises(ValidateRow(schema, Merged(last'.arg[1], last'.arg[2]))) =>
             last'.exc = SchemaValidationError
       /\ RaisingLeavesNoEffect
      ]_vars

\* ------------------------------------------------------------------ claims on the pool, continued

\* Some close() has marked the pool closed and every close() that went past
\* its test has finished its loop over the roster.
RosterClosed ==
    closed /\ \A h \in Holders : ppc[h] \notin {"drain", "sweep"}

\* C26: a connection is open when get_connection yields it, and the roster
\* does not grow once close() has been through it.
C26_NoUseAfterClose ==
    [][/\ \A h \in Holders : Did(h, "yield") => objs'[held'[h]].open
       /\ RosterClosed => connections' = connections
      ]_vars

\* C27: the ready queue holds no connection twice and at most
\* max_connections of them, each of them in the roster and in no holder's
\* hands, and while a holder has a connection the queue has room for it.
C27_QueueNeverFull ==
    /\ \A i, j \in 1..Len(ready) : i # j => ready[i] # ready[j]
    /\ Len(ready) <= MaxConnections
    /\ \A i \in 1..Len(ready) :
          /\ \E k \in 1..Len(connections) : connections[k] = ready[i]
          /\ \A h \in Holders : held[h] # ready[i]
    /\ (\E h \in Holders : held[h] # 0)
          => Len(ready) < QueueMaxsize(MaxConnections)

\* A scope has just put its connection back while max_connections - 1
\* others were queued: the queue is at its maxsize and no lease is open.
C27_Witness ==
    /\ last.op = "release"
    /\ Len(ready) = MaxConnections
    /\ Leased = {}

\* ------------------------------------------------------------------ claims on the transaction, continued

\* The positions of the staged sets of t whose value the store cannot pickle.
Failing(t) ==
    {i \in 1..Len(t.changes) : t.changes[i][2] = Unpicklable}

\* The store d after the first n staged sets of t, and nothing else of t.
WritesBefore(t, d, n) ==
    [k \in DOMAIN d \cup {t.changes[i][1] : i \in 1..n} |->
        IF \E i \in 1..n : t.changes[i][1] = k
        THEN t.changes[CHOOSE i \in 1..n : t.changes[i][1] = k][2]
        ELSE d[k]]

\* How many store operations of a commit of t are done before the first that
\* fails, or -1 where none fails: on an open shelf the first set whose value
\* cannot be pickled fails, on a closed shelf the first operation.
DoneBeforeFailure(t, open) ==
    IF ~open
    THEN IF Len(t.changes) + Len(t.deletions) > 0 THEN 0 ELSE -1
    ELSE IF Failing(t) = {} THEN -1
    ELSE (CHOOSE i \in Failing(t) : \A j \in Failing(t) : i <= j) - 1

\* C23: a commit of an open transaction none of whose store operations fails
\* ends committed with the sets applied and then the deletes; one whose
\* (n + 1)-th store operation fails raises TransactionError, ends rolled
\* back and not committed with both buffers empty, and leaves in the store
\* the n sets applied before it and no delete.  (The sets come first, and on
\* a shelf that takes the sets no delete fails.)
C23_FailedCommitKeepsWrites ==
    [][\A c \in Contexts :
         /\ Did(c, "commit") \/ (Did(c, "exit") /\ last'.arg = <<NoExc>>)
         /\ ~Completed(tx[c])
         => LET n == DoneBeforeFailure(tx[c], ShelfOpen)
            IN  IF n = -1
                THEN /\ last'.exc = NoExc
                     /\ tx'[c].committed /\ ~tx'[c].rolled_back
                     /\ db' = AllInEffect(tx[c], db)
                ELSE /\ last'.exc = TransactionError
                     /\ tx'[c].rolled_back /\ ~tx'[c].committed
                     /\ tx'[c].changes = <<>> /\ tx'[c].deletions = <<>>
                     /\ db' = WritesBefore(tx[c], db, n)
      ]_vars

\* The commit just made wrote its first staged set and failed on its second:
\* the store logged the write of one key and the error on the other, the key
\* written has its value in the open store, the other is not there, and the
\* Transaction is rolled back with its buffers empty.
C23_Witness ==
    /\ last.op = "commit" /\ last.exc = TransactionError
    /\ ShelfOpen
    /\ \E p \in {q \in Keys \X Keys : q[1] # q[2]} :
          /\ last.log = <<LogRecord("Set key ", p[1]),
                          LogRecord("Error setting key ", p[2])>>
          /\ p[1] \in DOMAIN db /\ db[p[1]] = Storable
          /\ p[2] \notin DOMAIN db
    /\ tx[last.ctx].rolled_back /\ ~tx[last.ctx].committed
    /\ tx[last.ctx].changes = <<>> /\ tx[last.ctx].deletions = <<>>

\* The state of key in the store after the staged calls of t on key are
\* applied to d in call order: delete takes key out of changes, so a key that
\* is in changes was set after its last delete.
LastWriteWins(t, d, key) ==
    IF InChanges(t.changes, key) THEN ChangeValue(t.changes, key)
    ELSE IF InDeletions(t.deletions, key) THEN None
    ELSE IF key \in DOMAIN d THEN d[key]
    ELSE None

\* What a get answered, with the two answers that stand for "no such key"
\* (None for a staged delete, the store's sentinel for an absent key) as one.
Answer(v, key) == IF v = KeyNotFound(key) THEN None ELSE v

\* C25: after a successful commit every key is in the store as its staged
\* calls, applied in call order, leave it, which is also what get returned
\* for it just before the commit (on the open shelf, where get of a key that
\* is not staged returns).
C25_LastWriteWins ==
    [][\A c \in Contexts :
         /\ Did(c, "commit") \/ (Did(c, "exit") /\ last'.arg = <<NoExc>>)
         /\ ~Completed(tx[c])
         /\ last'.exc = NoExc
         /\ ShelfOpen
         => \A k \in Keys :
               /\ Answer(KVStoreGet(db', k), k) = LastWriteWins(tx[c], db, k)
               /\ Answer(KVStoreGet(db', k), k)
                      = Answer(TransactionGet(tx[c], db, ShelfOpen, k).ret, k)
      ]_vars

\* ------------------------------------------------------------------ claims on the index, continued

\* C24: the blob under idx:<table>:<field> decodes to the buckets the Index
\* holds in memory, so an Index made anew from the store finds the same row
\* ids for every value.
C24_BlobIsIndex ==
    HasIndex(indexes, TableName, FieldName) =>
        LET mine == indexes[IndexName(TableName, FieldName)]
            anew == IndexLoad(db, TableName, FieldName)
        IN  /\ anew = mine
            /\ \A v \in RawValues : IndexFindRows(anew, v) = IndexFindRows(mine, v)

\* The only row ever inserted was indexed (its add_entry wrote the blob) and
\* a delete has taken it out again: the blob is there and holds no bucket.
C24_Witness ==
    /\ last.op = "delete" /\ last.ret = PyTrue
    /\ uuids = 1
    /\ HasIndex(indexes, TableName, FieldName)
    /\ IndexKey(TableName, FieldName) \in DOMAIN db
    /\ IndexLoad(db, TableName, FieldName) = EmptyIndex

\* C28: with an index on the field, query_by_field answers every value with
\* the rows the linear scan of a table without index answers, and with no
\* None in the list.
C28_IndexedIsScan ==
    HasIndex(indexes, TableName, FieldName) =>
        \A v \in QueryValues :
            LET indexed == TableQueryByField(indexes, db, TableName, FieldName, v)
                scanned == TableQueryByField(<<>>, db, TableName, FieldName, v)
            IN  /\ None \notin BagToSet(indexed)
                /\ indexed = scanned

\* C29: with the index made before the first insert, a row id is in the
\* bucket str(v) exactly when the row stored under that id has the field,
\* not None, equal to v.
C29_BucketIffStored ==
    HasIndex(indexes, TableName, FieldName) =>
        \A id \in RowIds, v \in RawValues :
            LET row == TableQuery(db, TableName, id)
            IN  id \in IndexFindRows(indexes[IndexName(TableName, FieldName)], v)
                <=> /\ ~Falsy(row)
                    /\ ColumnGet(row[2], FieldName) # PyNone
                    /\ PyEq(ColumnGet(row[2], FieldName), v)

\* ------------------------------------------------------------------ claims on MiniDB

\* C21: every key under the prefix of a table of the MiniDB is the key of a
\* row of that table; an insert adds its row to the list_rows of its table,
\* and an insert, a delete or a create_index on one table leaves the
\* list_rows of every other table as it was.
C21_NamespaceIsRows ==
    [][\A t \in tables' :
         /\ \A k \in KVStoreKeys(db') :
               StartsWith(k, Prefix(t)) => \E id \in RowIds : k = RowKey(t, id)
         /\ Did("t1", "insert") /\ last'.exc = NoExc /\ last'.arg[1] = t =>
               ListRows(db', t)
                  = ListRows(db, t) (+) SetToBag({JsonEncode(last'.arg[2])})
         /\ /\ Did("t1", "insert") \/ Did("t1", "delete")
                                    \/ Did("t1", "create_index")
            /\ last'.arg[1] # t
            => ListRows(db', t) = ListRows(db, t)
      ]_vars

\* C22: a drop_table that returns leaves the name out of list_tables() and
\* no row under the name's prefix, so that list_rows() of a table made anew
\* under the name is empty.
C22_DropRemovesRows ==
    [][\A t \in TableNames :
         Did("t1", "drop_table") /\ last'.arg = <<t>> /\ last'.exc = NoExc =>
            /\ t \notin tables'
            /\ ListRows(db', t) = EmptyBag
            /\ \A k \in KVStoreKeys(db') : ~StartsWith(k, Prefix(t))
      ]_vars
====
